--------------------------- MODULE Backends_proofs ---------------------------
(***************************************************************************)
(* The backends keep ApplyPromise, for any devices, addresses, routers and *)
(* number of calls.  Each call has an invariant that no other call can     *)
(* break (CallInv), and one it has while it is alone (Progress): that what *)
(* it has still to do brings the backend to what was pushed.               *)
(***************************************************************************)
EXTENDS BackendsPromise, FiniteSetTheorems, TLAPS

Stages == Commands \cup Answered \cup {"idle"}

Calls ==
  [op : {"none", "apply", "remove"}, pc : Stages, peers : SUBSET Keys,
   tunnel : SUBSET (V4 \cup V6), gone : BOOLEAN, found : SUBSET Nat, family : {"ip", "ipv6"},
   doomed : SUBSET Nat, missing : SUBSET (V4 \cup V6), todo : SUBSET [id : Nat, key : Keys],
   rest : SUBSET Keys, key : SUBSET Keys]

Periods == [before : SUBSET Keys, involved : SUBSET Keys, crowded : BOOLEAN]

\* The commands of an operation, by backend.
AddressCommands == {"get-addresses", "delete-address", "put-address"}
OldCommands == {"find-old", "delete-peer"}
NewCommands == {"find-new", "patch-peer", "put-peer"}
PeerCommands == {"list-peers"} \cup OldCommands \cup NewCommands

ApplyCommands ==
  IF kind = "mikrotik"
  THEN {"get-interface", "patch-interface", "put-interface"} \cup AddressCommands \cup PeerCommands
  ELSE IF kind = "self-managed"
  THEN {"post", "link-show", "link-add", "address-add", "link-up", "syncconf"}
  ELSE {"post", "truncate", "write", "protect"}
         \cup (IF kind = "network-manager" THEN {"connection-reload", "connection-up"}
               ELSE {"networkctl-reload", "reconfigure"})

RemoveCommands ==
  IF kind = "mikrotik"
  THEN {"get-addresses", "delete-address", "list-peers", "get-interface", "delete-interface"}
         \cup OldCommands
  ELSE IF kind = "self-managed" THEN {"post", "link-del"}
  ELSE IF kind = "network-manager" THEN {"post", "connection-delete", "remove-file"}
  ELSE {"post", "remove-file", "networkctl-reload", "link-del"}

CommandsOf(op) == IF op = "apply" THEN ApplyCommands ELSE RemoveCommands

Types ==
  /\ kind \in Kinds
  /\ remote \in BOOLEAN
  /\ kind = "mikrotik" => ~remote
  /\ calls \in 0..MaxCalls
  /\ period \in Periods
  /\ router \in Routers
  /\ IsFiniteSet(router.peers)
  /\ Distinct(router)
  /\ host \in Hosts
  /\ call \in [Slots -> Calls]

KeysOf(entries) == {p.key : p \in entries}

\* Nothing but what was pushed is anywhere from where it may get in.
Admits(keys, r, h) ==
  /\ KeysOf(r.peers) \subseteq keys
  /\ kind # "mikrotik" => r.peers = {}
  /\ h.serves \subseteq keys
  /\ ~h.link => h.serves = {}
  /\ UNION h.file \subseteq keys /\ UNION h.loaded \subseteq keys
  /\ kind \in {"mikrotik", "self-managed"} => h.file = {} /\ h.loaded = {}
  /\ kind = "mikrotik" => h.serves = {}

Served(r, h) == IF kind = "mikrotik" THEN Configured(r) ELSE h.serves

\* What a call holds: ids of entries it has read, which are not used again, and
\* devices it pushes or does not want.
Holds(c, r) ==
  /\ c.op = "remove" => c.peers = {} /\ c.tunnel = {}
  /\ c.rest \subseteq c.peers
  /\ IsFiniteSet(c.todo)
  /\ \A k, l \in c.key : k = l
  /\ \A i \in c.found \cup c.doomed \cup IdsOf(c.todo) : i <= r.last

OursOnly(c, r) ==
  \A a \in r.addrs : a.id \in c.doomed => a.ours /\ a.addr \in Family(c) /\ a.addr \notin c.tunnel

\* What they are to it at the command it waits for.
Staged(c, r) ==
  /\ c.pc \in Answered \cup {"idle"} => c.op = "none" /\ c.peers = {}
  /\ c.pc \notin Answered \cup {"idle"} => c.op # "none" /\ c.pc \in CommandsOf(c.op)
  /\ c.pc = "patch-interface" => c.found # {}
  /\ c.pc \in {"delete-address", "put-address"} => c.missing \subseteq Wanted(c)
  /\ c.pc = "delete-address" => OursOnly(c, r)
  /\ c.pc = "put-address" => c.doomed = {}
  /\ c.pc \in OldCommands => c.key \cap c.peers = {} /\ \A e \in c.todo : e.key \notin c.peers
  /\ c.pc \in NewCommands => c.key \subseteq c.peers /\ c.todo = {}
  /\ c.pc \in {"delete-peer", "patch-peer"} =>
       \A p \in r.peers : p.id \in c.found => p.key \in c.key

CallInv(c, r) == Holds(c, r) /\ Staged(c, r)

Entries(entries, k) == {p \in entries : p.key = k}

OurAddrs(r) == {a.addr : a \in {b \in r.addrs : b.ours}}

\* What a lone apply on the router has done.
Addresses(c, r) ==
  /\ c.pc \in {"delete-address", "put-address"} =>
       /\ \A a \in r.addrs :
            a.ours /\ a.addr \in Family(c) => a.addr \in c.tunnel \/ a.id \in c.doomed
       /\ Wanted(c) \subseteq OurAddrs(r) \cup c.missing
  /\ c.pc \in AddressCommands /\ c.family = "ipv6" => OurAddrs(r) \cap V4 = c.tunnel \cap V4
  /\ c.pc \in PeerCommands => OurAddrs(r) = c.tunnel

Devices(c, r) ==
  /\ c.pc \in AddressCommands \cup PeerCommands => r.iface # {}
  /\ c.pc \in OldCommands \cup NewCommands =>
       /\ c.peers \subseteq
            c.rest \cup KeysOf(r.peers) \cup (IF c.pc \in NewCommands THEN c.key ELSE {})
       /\ \A k \in Keys \ c.peers :
            Cardinality(Entries(r.peers, k)) <=
              Cardinality(Entries(c.todo, k))
                + (IF c.pc \in OldCommands /\ k \in c.key THEN 1 ELSE 0)
  /\ c.pc \in {"delete-peer", "patch-peer"} => \E p \in r.peers : c.found = {p.id}

\* What a lone apply on a host has done.
Files2(c, h) ==
  /\ c.pc = "write" => h.file = {}
  /\ c.pc \in {"protect", "connection-reload", "networkctl-reload",
                "connection-up", "reconfigure"} =>
       h.file = {c.peers}
  /\ c.pc \in {"connection-up", "reconfigure"} => h.loaded = {c.peers}

Progress(c, r, h) ==
  c.op = "apply" => IF kind = "mikrotik" THEN Addresses(c, r) /\ Devices(c, r) ELSE Files2(c, h)

\* A lone call is not abandoned, and has dropped no device that is to stay.
LoneInv ==
  InFlight # {} /\ ~period.crowded =>
    \E s \in Slots :
      /\ InFlight = {s} /\ ~call[s].gone
      /\ period.before \cap call[s].peers \subseteq Live
      /\ Progress(call[s], router, host)

IInv ==
  /\ Types
  /\ Admits(period.involved, router, host)
  /\ \A s \in Slots : call[s].peers \subseteq period.involved /\ CallInv(call[s], router)
  /\ LoneInv

---------------------------------------------------------------------------
\* What a command may do to the backend: entries are added with new ids, nothing
\* gets in but what was pushed, and the two action properties hold of it.
Evolves(s) ==
  /\ router' \in Routers /\ IsFiniteSet(router'.peers) /\ Distinct(router')
  /\ router.last <= router'.last
  /\ \A p \in router'.peers : p \in router.peers \/ p.id > router.last
  /\ \A a \in router'.addrs : a \in router.addrs \/ a.id > router.last
  /\ {a \in router'.addrs : ~a.ours} = {a \in router.addrs : ~a.ours}
  /\ host' \in Hosts
  /\ Admits(period.involved, router', host')
  /\ kind \in {"mikrotik", "self-managed"} =>
       \A k \in Served(router, host) \ Served(router', host') : CutsOff(s, k)

\* What a lone call's Ok means.
Exact(s) ==
  /\ Served(router', host') = call[s].peers
  /\ Admits(call[s].peers, router', host')
  /\ kind = "mikrotik" => OurAddrs(router') = call[s].tunnel

\* How a call may go on.
Fine(s, c) ==
  /\ c \in Calls
  /\ CallInv(c, router')
  /\ c.pc # "idle"
  /\ c.pc \in Answered => c = Answer(c.pc)
  /\ c.pc \notin Answered => c.op = call[s].op /\ c.peers = call[s].peers /\ c.gone = call[s].gone
  /\ c.pc = "ok" => call[s].op = "apply"
  /\ ~period.crowded =>
       /\ period.before \cap call[s].peers \subseteq Served(router', host')
       /\ c.pc \notin Answered => Progress(c, router', host')
       /\ c.pc = "ok" => Exact(s)

Goes(s, c) ==
  /\ call' = [call EXCEPT ![s] = c]
  /\ Outcome(s, c)
  /\ UNCHANGED <<kind, remote, calls>>

\* What the theorems are about.
Kept ==
  /\ IInv'
  /\ [Promise!Next]_Promise!vars
  /\ (kind \in {"mikrotik", "self-managed"})
        => \A k \in Live \ Live' : \E s \in InFlight : CutsOff(s, k)
  /\ Foreign' = Foreign
  /\ \A s \in InFlight :
       (kind = "mikrotik" /\ call'[s].pc = "ok" /\ ~period.crowded)
         => OurAddresses' = call[s].tunnel

\* The steps of a call.
LEMMA FlightFacts ==
  ASSUME NEW s \in Slots, s \in InFlight, IInv
  PROVE  /\ call[s] \in Calls
         /\ CallInv(call[s], router)
         /\ call[s].pc \in CommandsOf(call[s].op)
         /\ call[s].peers \subseteq period.involved
         /\ call[s].op \in {"apply", "remove"}
         /\ Admits(period.involved, router, host)
         /\ ~period.crowded => /\ InFlight = {s} /\ ~call[s].gone
                               /\ period.before \cap call[s].peers \subseteq Served(router, host)
                               /\ Progress(call[s], router, host)
<1>1. call[s] \in Calls
  BY DEF IInv, Types
<1>2. call[s].op \in {"none", "apply", "remove"}
  BY <1>1 DEF Calls
<1> QED
  BY <1>1, <1>2 DEF IInv, LoneInv, CallInv, Holds, Staged, InFlight, Live, Served

\* What another call holds stays true.
LEMMA OtherCall ==
  ASSUME IInv, NEW s \in Slots, Evolves(s), NEW t \in Slots
  PROVE  CallInv(call[t], router')
<1> DEFINE c == call[t]
<1>1. c \in Calls /\ CallInv(c, router)
  BY DEF IInv, Types
<1>2. \A i \in c.found \cup c.doomed \cup IdsOf(c.todo) : i \in Nat
  BY <1>1 DEF Calls, IdsOf
<1>3. router.last \in Nat /\ router'.last \in Nat /\ router.last <= router'.last
  BY DEF IInv, Types, Routers, Evolves
<1>4. \A i \in c.found \cup c.doomed \cup IdsOf(c.todo) : i <= router.last
  BY <1>1 DEF CallInv, Holds, Staged, OursOnly
<1>5. \A i \in c.found \cup c.doomed \cup IdsOf(c.todo) : i <= router'.last
  BY <1>2, <1>3, <1>4
<1>6. /\ \A p \in router'.peers : p \in router.peers \/ p.id > router.last
      /\ \A a \in router'.addrs : a \in router.addrs \/ a.id > router.last
  BY DEF Evolves
<1>7. /\ \A p \in router'.peers : p.id \in c.found => p \in router.peers
      /\ \A a \in router'.addrs : a.id \in c.doomed => a \in router.addrs
  BY <1>2, <1>3, <1>4, <1>6
<1> HIDE DEF c
<1>8. CallInv(c, router')
  BY <1>1, <1>5, <1>7 DEF CallInv, Holds, Staged, OursOnly
<1> QED
  BY <1>8 DEF c

LEMMA MoveInvariant ==
  ASSUME IInv, NEW s \in Slots, s \in InFlight, Evolves(s), NEW c, Fine(s, c), Goes(s, c)
  PROVE  IInv'
<1>0. CallAssumption
  BY CallAssumption
<1>1. call \in [Slots -> Calls] /\ call[s] \in Calls
  BY DEF IInv, Types
<1>2. /\ call' \in [Slots -> Calls] /\ call'[s] = c
      /\ \A t \in Slots \ {s} : call'[t] = call[t]
  BY <1>1 DEF Goes, Fine
<1>3. period' \in Periods
  BY <1>1 DEF Goes, Outcome, Periods, IInv, Types, Calls
<1>4. Types'
  BY <1>2, <1>3 DEF Goes, IInv, Types, Evolves
<1>5. InFlight' = IF c.pc \in Answered THEN InFlight \ {s} ELSE InFlight
  BY <1>2 DEF InFlight, Fine
<1>6. \A t \in Slots : CallInv(call'[t], router')
  BY <1>2, OtherCall DEF Fine
<1>7. kind' = kind
  BY DEF Goes
<1>8. Admits(period'.involved, router', host')
  BY FlightFacts DEF Goes, Outcome, Fine, Exact, Evolves
<1>9. Admits(period.involved, router, host)'
  BY <1>7, <1>8 DEF Admits
<1>10. (\A t \in Slots : CallInv(call[t], router))'
  BY <1>6, <1>7 DEF CallInv, Holds, Staged, OursOnly, CommandsOf, ApplyCommands, RemoveCommands
<1>11. \A t \in Slots : call'[t].peers \subseteq period'.involved
  <2>1. \A t \in Slots : call[t].peers \subseteq period.involved
    BY DEF IInv
  <2>2. c.peers \subseteq call[s].peers
    BY DEF Fine, Answer, NoCall
  <2>3. CASE c.pc = "ok" /\ ~period.crowded
    <3>0. InFlight = {s}
      BY <2>3, FlightFacts
    <3>1. \A t \in Slots \ {s} : call[t].pc \in Answered \cup {"idle"}
      BY <3>0 DEF InFlight
    <3>2. \A t \in Slots : CallInv(call[t], router)
      BY DEF IInv
    <3>3. \A t \in Slots \ {s} : call[t].peers = {}
      BY <3>1, <3>2 DEF CallInv, Holds, Staged, OursOnly
    <3> QED
      BY <2>3, <3>3, <2>2, <1>2 DEF Goes, Outcome
  <2>4. CASE ~(c.pc = "ok" /\ ~period.crowded)
    BY <2>4, <2>1, <2>2, <1>2 DEF Goes, Outcome
  <2> QED
    BY <2>3, <2>4
<1>12. LoneInv'
  <2> SUFFICES ASSUME InFlight' # {}, ~period'.crowded
               PROVE  \E t \in Slots :
                        /\ InFlight' = {t} /\ ~call'[t].gone
                        /\ period'.before \cap call'[t].peers \subseteq Live'
                        /\ Progress(call[t], router, host)'
    BY DEF LoneInv
  <2>1. ~period.crowded
    BY DEF Goes, Outcome
  <2>2. InFlight = {s} /\ ~call[s].gone
    BY <2>1, FlightFacts
  <2>3. c.pc \notin Answered
    BY <2>2, <1>5
  <2>4. InFlight' = {s} /\ ~call'[s].gone
    BY <2>2, <2>3, <1>5, <1>2 DEF Fine
  <2>5. period'.before = period.before /\ call'[s].peers = call[s].peers
    BY <2>3, <1>2 DEF Goes, Outcome, Fine
  <2>6. Live' = Served(router', host')
    BY <1>7 DEF Live, Served
  <2>7. Progress(c, router', host')
    BY <2>1, <2>3 DEF Fine
  <2>8. Progress(call[s], router, host)'
    BY <2>7, <1>2, <1>7 DEF Progress, Addresses, Devices, Files2
  <2> QED
    BY <2>1, <2>4, <2>5, <2>6, <2>8 DEF Fine
<1> QED
  BY <1>4, <1>9, <1>10, <1>11, <1>12 DEF IInv

\* A step of a call is one that ApplyPromise allows, or none to it.
LEMMA MoveRefines ==
  ASSUME IInv, NEW s \in Slots, s \in InFlight, Evolves(s), NEW c, Fine(s, c), Goes(s, c)
  PROVE  [Promise!Next]_Promise!vars
<1> DEFINE Seen(t) == [op     |-> call[t].op,
                       keys   |-> call[t].peers,
                       answer |-> IF t \in InFlight THEN "running" ELSE call[t].pc]
           seen == [t \in Slots |-> Seen(t)]
           live == IF InFlight # {} /\ ~period.crowded THEN period.before ELSE Live
<1>1. call \in [Slots -> Calls] /\ call[s] \in Calls
  BY DEF IInv, Types
<1>2. /\ call'[s] = c
      /\ \A t \in Slots \ {s} : call'[t] = call[t]
  BY <1>1 DEF Goes, Fine
<1>3. InFlight' = IF c.pc \in Answered THEN InFlight \ {s} ELSE InFlight
  BY <1>2 DEF InFlight, Fine
<1>4. Live' = Served(router', host')
  BY DEF Live, Served, Goes
<1>5. Live' \in SUBSET period.involved
  BY <1>4 DEF Evolves, Admits, Served, Configured, KeysOf
<1>6. \A t \in Slots : seen[t].answer = "running" <=> t \in InFlight
  BY DEF InFlight, Answered
<1>7. Promise!Running = InFlight
  BY <1>6 DEF Promise!Running, InFlight
<1>8. period'.crowded = period.crowded
  BY DEF Goes, Outcome
<1>9. \A t \in Slots \ {s} : Seen(t)' = Seen(t)
  BY <1>2, <1>3
<1>10. CASE c.pc \notin Answered
  <2>1. Seen(s)' = Seen(s)
    BY <1>10, <1>2, <1>3 DEF Fine
  <2>2. seen' = seen
    BY <1>9, <2>1
  <2>3. period' = period
    <3>1. period' = [before |-> period.before, involved |-> period.involved,
                     crowded |-> period.crowded]
      BY <1>10 DEF Goes, Outcome, Answered
    <3> QED
      BY <3>1 DEF IInv, Types, Periods
  <2>4. CASE period.crowded
    <3>1. live' = Live'
      BY <2>3, <2>4
    <3>2. Promise!Mix
      BY <3>1, <2>2, <2>3, <2>4, <1>5, <1>7 DEF Promise!Mix, Promise!Mixes
    <3> QED
      BY <3>2 DEF Promise!Next
  <2>5. CASE ~period.crowded
    <3>1. live' = live
      BY <2>3, <2>5, <1>3, <1>10
    <3> QED
      BY <3>1, <2>2, <2>3 DEF Promise!vars
  <2> QED
    BY <2>4, <2>5
<1>11. CASE c.pc \in Answered
  <2>1. Seen(s)' = [op |-> "none", keys |-> {}, answer |-> c.pc]
    <3>1. c = Answer(c.pc)
      BY <1>11 DEF Fine
    <3>2. c.op = "none" /\ c.peers = {}
      BY <3>1 DEF Answer, NoCall
    <3> QED
      BY <3>2, <1>2, <1>3, <1>11
  <2>2. seen' = [seen EXCEPT ![s] = [op |-> "none", keys |-> {}, answer |-> c.pc]]
    BY <2>1, <1>9
  <2>3. seen[s].keys = call[s].peers /\ seen[s].op = call[s].op
    OBVIOUS
  <2>4. ~period.crowded => InFlight = {s} /\ InFlight' = {}
    BY <1>3, <1>11, FlightFacts
  <2>5. live' = Live'
    BY <2>4, <1>8
  <2>6. Promise!Answers(s, c.pc)
    BY <2>2, <1>7, <1>8 DEF Promise!Answers
  <2>7. CASE c.pc = "ok"
    <3>1. CASE period.crowded
      BY <2>7, <3>1, <2>3, <2>5, <2>6, <1>5
      DEF Promise!Ok, Promise!Mixes, Promise!Next, Fine, Goes, Outcome
    <3>2. CASE ~period.crowded
      <4>1. live' = call[s].peers
        BY <2>5, <1>4, <2>7, <3>2 DEF Fine, Exact
      <4>2. period'.involved = call[s].peers
        BY <2>7, <3>2 DEF Goes, Outcome
      <4>3. Promise!Ok(s)
        BY <4>1, <4>2, <2>3, <2>6, <2>7, <3>2 DEF Promise!Ok, Fine
      <4> QED
        BY <4>3 DEF Promise!Next
    <3> QED
      BY <3>1, <3>2
  <2>8. CASE c.pc # "ok"
    <3>1. c.pc \in {"failed", "unsure"}
      BY <2>8, <1>11 DEF Answered
    <3>2. period'.involved = period.involved
      BY <2>8 DEF Goes, Outcome
    <3>3. ~period.crowded => live = period.before
      OBVIOUS
    <3>4. ~period.crowded => live \cap call[s].peers \subseteq live'
      BY <3>3, <2>5, <1>4 DEF Fine
    <3>5. Promise!Fails(s)
      BY <3>1, <3>2, <3>4, <2>3, <2>5, <2>6, <1>5 DEF Promise!Fails, Promise!Mixes
    <3> QED
      BY <3>5 DEF Promise!Next
  <2> QED
    BY <2>7, <2>8
<1> QED
  BY <1>10, <1>11

LEMMA MoveKeeps ==
  ASSUME IInv, NEW s \in Slots, s \in InFlight, Evolves(s), NEW c, Fine(s, c), Goes(s, c)
  PROVE  Kept
<1>1. IInv' /\ [Promise!Next]_Promise!vars
  BY MoveInvariant, MoveRefines
<1>2. Live = Served(router, host) /\ Live' = Served(router', host')
  BY DEF Live, Served, Goes
<1>3. (kind \in {"mikrotik", "self-managed"})
        => \A k \in Live \ Live' : \E t \in InFlight : CutsOff(t, k)
  BY <1>2 DEF Evolves
<1>4. Foreign' = Foreign
  BY DEF Evolves, Foreign
<1>5. ASSUME NEW t \in InFlight, kind = "mikrotik", call'[t].pc = "ok", ~period.crowded
      PROVE  OurAddresses' = call[t].tunnel
  <2>1. t = s
    BY <1>5, FlightFacts
  <2>2. call' = [call EXCEPT ![s] = c] /\ call \in [Slots -> Calls]
    BY DEF Goes, IInv, Types
  <2>3. c.pc = "ok"
    BY <1>5, <2>1, <2>2
  <2>4. OurAddrs(router') = call[s].tunnel
    BY <1>5, <2>3 DEF Fine, Exact
  <2>5. OurAddresses' = OurAddrs(router')
    BY DEF OurAddresses, OurAddrs, Foreign
  <2> QED
    BY <2>1, <2>4, <2>5
<1> QED
  BY <1>1, <1>3, <1>4, <1>5 DEF Kept

\* Any call may fail, if not because of what it did then because it was left.
LEMMA AnswerFine ==
  ASSUME NEW r, r.last \in Nat, NEW how \in Answered
  PROVE  /\ Answer(how) \in Calls /\ CallInv(Answer(how), r)
         /\ Answer(how).pc = how /\ Answer(how) = Answer(Answer(how).pc)
<1> DEFINE c == Answer(how)
<1>1. /\ c.op = "none" /\ c.pc = how /\ c.peers = {} /\ c.tunnel = {} /\ c.gone = FALSE
      /\ c.found = {} /\ c.family = "ip" /\ c.doomed = {} /\ c.missing = {}
      /\ c.todo = {} /\ c.rest = {} /\ c.key = {}
  BY DEF Answer, NoCall
<1>2. c \in Calls
  BY DEF Answer, NoCall, Calls, Stages
<1>3. IsFiniteSet({})
  BY FS_EmptySet
<1>4. how \in {"ok", "unsure", "failed"}
  BY DEF Answered
<1> HIDE DEF c
<1>5. CallInv(c, r)
  BY <1>1, <1>3, <1>4
  DEF CallInv, Holds, Staged, OursOnly, Answered, OldCommands, NewCommands, Wanted, Family, IdsOf
<1>6. c = Answer(c.pc)
  BY <1>1 DEF c
<1> QED
  BY <1>1, <1>2, <1>5, <1>6 DEF c

LEMMA Moves ==
  ASSUME IInv, NEW s \in Slots, s \in InFlight, Evolves(s),
         NEW next, GoesOn(s, next), \A c \in next : Fine(s, c)
  PROVE  Kept
<1>1. PICK c \in next \cup {Answer("failed")} :
        /\ ~call[s].gone => c \in next
        /\ call' = [call EXCEPT ![s] = c]
        /\ Outcome(s, c)
  BY DEF GoesOn
<1>2. Goes(s, c)
  BY <1>1 DEF Goes, GoesOn
<1>3. CASE c \in next
  BY <1>2, <1>3, MoveKeeps
<1>4. CASE c \notin next
  <2>1. period.crowded
    BY <1>1, <1>4, FlightFacts
  <2>2. c = Answer("failed")
    BY <1>4
  <2>3. "failed" \in Answered /\ router'.last \in Nat
    BY DEF Answered, Evolves, Routers
  <2>4. c \in Calls /\ CallInv(c, router') /\ c.pc = "failed" /\ c = Answer(c.pc)
    BY <2>2, <2>3, AnswerFine
  <2>5. Fine(s, c)
    BY <2>1, <2>3, <2>4 DEF Fine
  <2> QED
    BY <2>5, <1>2, MoveKeeps
<1> QED
  BY <1>3, <1>4

LEMMA AnswersFine ==
  ASSUME IInv, NEW s \in Slots, s \in InFlight, Evolves(s), NEW how \in Answered,
         how = "ok" => call[s].op = "apply",
         ~period.crowded => /\ period.before \cap call[s].peers \subseteq Served(router', host')
                            /\ how = "ok" => Exact(s)
  PROVE  Fine(s, Answer(how))
<1>1. router'.last \in Nat
  BY DEF Evolves, Routers
<1>2. how # "idle"
  BY DEF Answered
<1>3. /\ Answer(how) \in Calls /\ CallInv(Answer(how), router')
      /\ Answer(how).pc = how /\ Answer(how) = Answer(Answer(how).pc)
  BY <1>1, AnswerFine
<1> QED
  BY <1>2, <1>3 DEF Fine

\* A call that fails or is done: an apply on its own must then have done it all.
LEMMA CompletedFine ==
  ASSUME IInv, NEW s \in Slots, s \in InFlight, Evolves(s),
         NEW d, d.op = call[s].op,
         call[s].op = "apply" /\ ~period.crowded => Exact(s)
  PROVE  \A c \in Completed(d) : Fine(s, c)
<1>1. call[s].op = "remove" => call[s].peers = {}
  BY FlightFacts DEF CallInv, Holds, Staged, OursOnly
<1>2. call[s].op \in {"apply", "remove"}
  BY FlightFacts
<1>3. ~period.crowded => period.before \cap call[s].peers \subseteq Served(router', host')
  BY <1>1, <1>2 DEF Exact
<1>4. \A c \in Completed(d) :
        \/ c = Answer("ok") /\ call[s].op = "apply"
        \/ c = Answer("unsure") \/ c = Answer("failed")
  BY <1>2 DEF Completed
<1>5. {"ok", "unsure", "failed"} \subseteq Answered
  BY DEF Answered
<1>6. Fine(s, Answer("unsure")) /\ Fine(s, Answer("failed"))
  BY <1>3, <1>5, AnswersFine
<1>7. call[s].op = "apply" => Fine(s, Answer("ok"))
  BY <1>3, <1>5, AnswersFine
<1> QED
  BY <1>4, <1>6, <1>7

LEMMA FailedFine ==
  ASSUME IInv, NEW s \in Slots, s \in InFlight, Evolves(s), NEW how \in {"failed", "unsure"},
         ~period.crowded => period.before \cap call[s].peers \subseteq Served(router', host')
  PROVE  Fine(s, Answer(how))
BY AnswersFine DEF Answered

---------------------------------------------------------------------------
\* The local backends.

LEMMA StageFacts ==
  /\ \A op : CommandsOf(op) \subseteq Commands
  /\ Commands \cap (Answered \cup {"idle"}) = {}
<1>1. ApplyCommands \subseteq Commands /\ RemoveCommands \subseteq Commands
  BY DEF ApplyCommands, RemoveCommands, Commands, AddressCommands, PeerCommands,
         OldCommands, NewCommands
<1> QED
  BY <1>1 DEF CommandsOf, Commands, Answered

LEMMA HostEvolves ==
  ASSUME IInv, NEW s \in Slots, s \in InFlight, kind # "mikrotik", UNCHANGED router,
         host' \in Hosts,
         host'.serves \subseteq period.involved, ~host'.link => host'.serves = {},
         UNION host'.file \subseteq period.involved, UNION host'.loaded \subseteq period.involved,
         kind = "self-managed" =>
           /\ host'.file = {} /\ host'.loaded = {}
           /\ host.serves \cap call[s].peers \subseteq host'.serves \/ call[s].gone
  PROVE  Evolves(s)
<1>1. Admits(period.involved, router, host)
  BY FlightFacts
<1>2. Admits(period.involved, router', host')
  BY <1>1 DEF Admits
<1>3. router \in Routers /\ IsFiniteSet(router.peers) /\ Distinct(router)
  BY DEF IInv, Types
<1>4. kind \in {"mikrotik", "self-managed"} =>
        \A k \in Served(router, host) \ Served(router', host') : CutsOff(s, k)
  BY DEF Served, CutsOff
<1>5. router.last <= router'.last
  BY <1>3 DEF Routers
<1> QED
  BY <1>2, <1>3, <1>4, <1>5 DEF Evolves

LEMMA HostStays ==
  ASSUME IInv, NEW s \in Slots, s \in InFlight, kind # "mikrotik", UNCHANGED <<router, host>>
  PROVE  /\ Evolves(s)
         /\ ~period.crowded => period.before \cap call[s].peers \subseteq Served(router', host')
<1>1. host \in Hosts
  BY DEF IInv, Types
<1>2. Evolves(s)
  BY <1>1, FlightFacts, HostEvolves DEF Admits
<1> QED
  BY <1>2, FlightFacts

\* A call that goes on to its next command.
LEMMA ThenFine ==
  ASSUME IInv, NEW s \in Slots, s \in InFlight, kind # "mikrotik", Evolves(s),
         NEW x \in CommandsOf(call[s].op),
         ~period.crowded =>
           /\ period.before \cap call[s].peers \subseteq Served(router', host')
           /\ call[s].op = "apply" => Files2([call[s] EXCEPT !.pc = x], host')
  PROVE  \A c \in Then(s, x) : Fine(s, c)
<1> DEFINE c == [call[s] EXCEPT !.pc = x]
<1>1. call[s] \in Calls /\ CallInv(call[s], router')
  BY FlightFacts, OtherCall
<1>2. x \in Commands /\ x \notin Answered \cup {"idle"}
  BY StageFacts
<1>3. /\ c \in Calls /\ c.pc = x /\ c.op = call[s].op /\ c.peers = call[s].peers
      /\ c.gone = call[s].gone /\ c.tunnel = call[s].tunnel /\ c.rest = call[s].rest
      /\ c.todo = call[s].todo /\ c.key = call[s].key /\ c.missing = call[s].missing
      /\ c.found = call[s].found /\ c.doomed = call[s].doomed /\ c.family = call[s].family
  BY <1>1, <1>2 DEF Calls, Stages
<1>4. x \notin OldCommands \cup NewCommands
                \cup {"patch-interface", "delete-address", "put-address",
                      "delete-peer", "patch-peer"}
  BY DEF CommandsOf, ApplyCommands, RemoveCommands, OldCommands, NewCommands
<1>5. call[s].op \in {"apply", "remove"}
  BY FlightFacts
<1> HIDE DEF c
<1>6. CallInv(c, router')
  BY <1>1, <1>2, <1>3, <1>4, <1>5
  DEF CallInv, Holds, Staged
<1>7. ~period.crowded => Progress(c, router', host')
  BY <1>3 DEF Progress, c
<1>8. Fine(s, c)
  BY <1>2, <1>3, <1>6, <1>7, Zenon DEF Fine, Answered
<1> QED
  BY <1>8 DEF Then, c

LEMMA Waiting ==
  ASSUME NEW s \in Slots, call[s].pc \in Commands
  PROVE  s \in InFlight
BY StageFacts DEF InFlight

\* The commands whose progress depends on the files.
FileCommands ==
  {"write", "protect", "connection-reload", "networkctl-reload", "connection-up", "reconfigure"}

LEMMA NoFiles ==
  ASSUME IInv, NEW s \in Slots, s \in InFlight, NEW x, x \notin FileCommands, NEW h
  PROVE  Files2([call[s] EXCEPT !.pc = x], h)
<1>1. [call[s] EXCEPT !.pc = x].pc = x
  BY FlightFacts DEF Calls
<1> QED
  BY <1>1 DEF Files2, FileCommands

LEMMA StayThen ==
  ASSUME IInv, NEW s \in Slots, s \in InFlight, kind # "mikrotik", UNCHANGED <<router, host>>,
         NEW x \in CommandsOf(call[s].op),
         ~period.crowded /\ call[s].op = "apply" => Files2([call[s] EXCEPT !.pc = x], host),
         GoesOn(s, Then(s, x))
  PROVE  Kept
BY HostStays, ThenFine, Moves

LEMMA StayStops ==
  ASSUME IInv, NEW s \in Slots, s \in InFlight, kind # "mikrotik", UNCHANGED <<router, host>>,
         NEW how \in {"failed", "unsure"}, GoesOn(s, {Answer(how)})
  PROVE  Kept
BY HostStays, FailedFine, Moves

\* The node agent, and the kernel's commands that leave the device as it is.
LEMMA AgentKept ==
  ASSUME IInv, NEW s \in Slots, kind # "mikrotik", UNCHANGED router, Accepted(s) \/ Refused(s)
  PROVE  Kept
<1>1. call[s].pc = "post" /\ UNCHANGED host
  BY DEF Accepted, Refused, At
<1>2. s \in InFlight
  BY <1>1, Waiting DEF Commands
<1>3. call[s].op \in {"apply", "remove"}
  BY <1>2, FlightFacts
<1>4. LocalFirst[call[s].op] \in CommandsOf(call[s].op) \ FileCommands
  <2>1. CASE kind = "self-managed"
    <3>1. LocalFirst = [apply |-> "link-show", remove |-> "link-del"]
      BY <2>1 DEF LocalFirst
    <3>2. LocalFirst[call[s].op] = IF call[s].op = "apply" THEN "link-show" ELSE "link-del"
      <4>1. LocalFirst["apply"] = "link-show" /\ LocalFirst["remove"] = "link-del"
        BY <3>1
      <4> QED
        BY <4>1, <1>3
    <3> QED
      BY <3>2, <2>1, <1>3 DEF CommandsOf, ApplyCommands, RemoveCommands, FileCommands
  <2>2. CASE kind = "network-manager"
    <3>1. LocalFirst = [apply |-> "truncate", remove |-> "connection-delete"]
      BY <2>2 DEF LocalFirst
    <3>2. LocalFirst[call[s].op] = IF call[s].op = "apply" THEN "truncate" ELSE "connection-delete"
      <4>1. LocalFirst["apply"] = "truncate" /\ LocalFirst["remove"] = "connection-delete"
        BY <3>1
      <4> QED
        BY <4>1, <1>3
    <3> QED
      BY <3>2, <2>2, <1>3 DEF CommandsOf, ApplyCommands, RemoveCommands, FileCommands
  <2>3. CASE kind \notin {"self-managed", "network-manager"}
    <3>1. LocalFirst = [apply |-> "truncate", remove |-> "remove-file"]
      BY <2>3 DEF LocalFirst
    <3>2. LocalFirst[call[s].op] = IF call[s].op = "apply" THEN "truncate" ELSE "remove-file"
      <4>1. LocalFirst["apply"] = "truncate" /\ LocalFirst["remove"] = "remove-file"
        BY <3>1
      <4> QED
        BY <4>1, <1>3
    <3> QED
      BY <3>2, <2>3, <1>3 DEF CommandsOf, ApplyCommands, RemoveCommands, FileCommands
  <2> QED
    BY <2>1, <2>2, <2>3
<1>5. CASE Accepted(s)
  BY <1>1, <1>2, <1>4, <1>5, NoFiles, StayThen DEF Accepted
<1>6. CASE Refused(s)
  BY <1>1, <1>2, <1>6, StayStops DEF Refused, Stops
<1> QED
  BY <1>5, <1>6

\* Which backend and operation a command belongs to.
LEMMA Belongs ==
  ASSUME IInv, NEW s \in Slots, s \in InFlight, kind # "mikrotik"
  PROVE  /\ kind \in {"self-managed", "network-manager", "systemd-networkd"}
         /\ call[s].op \in {"apply", "remove"}
         /\ call[s].op = "remove" => call[s].peers = {}
         /\ call[s].pc \in {"link-show", "link-add", "address-add", "link-up", "syncconf"}
              => kind = "self-managed" /\ call[s].op = "apply"
         /\ call[s].pc = "link-del"
              => kind \in {"self-managed", "systemd-networkd"} /\ call[s].op = "remove"
         /\ call[s].pc \in {"truncate", "write", "protect"}
              => kind # "self-managed" /\ call[s].op = "apply"
         /\ call[s].pc \in {"connection-reload", "connection-up"}
              => kind = "network-manager" /\ call[s].op = "apply"
         /\ call[s].pc = "reconfigure" => kind = "systemd-networkd" /\ call[s].op = "apply"
         /\ call[s].pc = "networkctl-reload" => kind = "systemd-networkd"
         /\ call[s].pc = "connection-delete" => kind = "network-manager" /\ call[s].op = "remove"
         /\ call[s].pc = "remove-file" => kind # "self-managed" /\ call[s].op = "remove"
<1>1. kind \in Kinds
  BY DEF IInv, Types
<1>2. /\ call[s].pc \in CommandsOf(call[s].op) /\ call[s].op \in {"apply", "remove"}
      /\ CallInv(call[s], router)
  BY FlightFacts
<1>3. call[s].op = "remove" => call[s].peers = {}
  BY <1>2 DEF CallInv, Holds, Staged, OursOnly
<1> DEFINE x == call[s].pc
<1>4. call[s].op = "apply" => x \in ApplyCommands
  BY <1>2 DEF CommandsOf
<1>5. call[s].op = "remove" => x \in RemoveCommands
  BY <1>2 DEF CommandsOf
<1> HIDE DEF x
<1>6. CASE call[s].op = "apply"
  BY <1>1, <1>4, <1>6 DEF ApplyCommands, Kinds, x
<1>7. CASE call[s].op = "remove"
  BY <1>1, <1>3, <1>5, <1>7 DEF RemoveCommands, Kinds, x
<1> QED
  BY <1>2, <1>6, <1>7

LEMMA HostFacts ==
  ASSUME IInv, NEW s \in Slots, s \in InFlight, kind # "mikrotik"
  PROVE  /\ host \in Hosts
         /\ host = [link |-> host.link, serves |-> host.serves, file |-> host.file,
                    loaded |-> host.loaded]
         /\ host.link \in BOOLEAN /\ host.file \in Files /\ host.loaded \in Files
         /\ period.involved \subseteq Keys
         /\ host.serves \subseteq period.involved
         /\ ~host.link => host.serves = {}
         /\ UNION host.file \subseteq period.involved
         /\ UNION host.loaded \subseteq period.involved
         /\ call[s].peers \subseteq period.involved
         /\ kind = "self-managed" => host.file = {} /\ host.loaded = {}
<1>1. host \in Hosts /\ period \in Periods
  BY DEF IInv, Types
<1> QED
  BY <1>1, FlightFacts DEF Hosts, Periods, Admits

LEMMA FileOf ==
  ASSUME NEW keys \in SUBSET Keys
  PROVE  {} \in Files /\ {keys} \in Files /\ UNION {keys} = keys /\ Holding(keys) = {keys}
BY DEF Files, NoFile, Holding

\* The device takes new peers, or is there at last.
LEMMA ServingEvolves ==
  ASSUME IInv, NEW s \in Slots, s \in InFlight, kind # "mikrotik", UNCHANGED router,
         NEW keys \in SUBSET period.involved, host' = Serving(keys),
         kind = "self-managed" => host.serves \cap call[s].peers \subseteq keys \/ call[s].gone
  PROVE  /\ Evolves(s)
         /\ host'.link /\ host'.serves = keys
         /\ host'.file = host.file /\ host'.loaded = host.loaded
<1>1. host' = [link |-> TRUE, serves |-> keys, file |-> host.file, loaded |-> host.loaded]
  BY HostFacts DEF Serving
<1>2. /\ host'.link /\ host'.serves = keys /\ host'.file = host.file /\ host'.loaded = host.loaded
      /\ host' \in Hosts
  BY <1>1, HostFacts DEF Hosts
<1> QED
  BY <1>2, HostFacts, HostEvolves

\* A file is written, or emptied.
LEMMA FileEvolves ==
  ASSUME IInv, NEW s \in Slots, s \in InFlight, kind \notin {"mikrotik", "self-managed"},
         UNCHANGED router,
         NEW f \in Files, UNION f \subseteq period.involved, host' = [host EXCEPT !.file = f]
  PROVE  /\ Evolves(s)
         /\ host'.link = host.link /\ host'.serves = host.serves
         /\ host'.file = f /\ host'.loaded = host.loaded
<1>1. host' = [link |-> host.link, serves |-> host.serves, file |-> f, loaded |-> host.loaded]
  BY HostFacts
<1>2. /\ host'.link = host.link /\ host'.serves = host.serves
      /\ host'.file = f /\ host'.loaded = host.loaded
      /\ host' \in Hosts
  BY <1>1, HostFacts DEF Hosts
<1> QED
  BY <1>2, HostFacts, HostEvolves

LEMMA LoadedEvolves ==
  ASSUME IInv, NEW s \in Slots, s \in InFlight, kind = "network-manager", UNCHANGED router,
         host' \in Loaded
  PROVE  /\ Evolves(s)
         /\ host'.link = host.link /\ host'.serves = host.serves
         /\ host'.file = host.file /\ host'.loaded = host.file
<1>1. host' = [link |-> host.link, serves |-> host.serves, file |-> host.file,
               loaded |-> host.file]
  BY HostFacts DEF Loaded
<1>2. /\ host'.link = host.link /\ host'.serves = host.serves
      /\ host'.file = host.file /\ host'.loaded = host.file
      /\ host' \in Hosts
  BY <1>1, HostFacts DEF Hosts
<1> QED
  BY <1>2, HostFacts, HostEvolves

LEMMA ActivatedEvolves ==
  ASSUME IInv, NEW s \in Slots, s \in InFlight, kind \notin {"mikrotik", "self-managed"},
         UNCHANGED router, host' \in Activated
  PROVE  /\ Evolves(s)
         /\ host'.serves \in host.loaded
         /\ host'.link /\ host'.file = host.file /\ host'.loaded = host.loaded
<1>1. PICK k \in host.loaded : host' = Serving(k)
  BY DEF Activated
<1>2. k \in SUBSET period.involved
  BY HostFacts
<1> QED
  BY <1>1, <1>2, ServingEvolves

LEMMA ReloadedEvolves ==
  ASSUME IInv, NEW s \in Slots, s \in InFlight, kind = "systemd-networkd", UNCHANGED router,
         host' \in Reloaded
  PROVE  /\ Evolves(s)
         /\ host.serves \subseteq host'.serves
         /\ host'.file = host.file /\ host'.loaded = host.file
<1> DEFINE link == host.link \/ host.file # NoFile
           serves == IF host.link THEN host.serves ELSE UNION host.file
<1>1. host' = [link |-> link, serves |-> serves, file |-> host.file, loaded |-> host.file]
  BY HostFacts DEF Reloaded
<1>2. link \in BOOLEAN
  OBVIOUS
<1>3. serves \subseteq period.involved /\ host.serves \subseteq serves
  BY HostFacts
<1>4. ~link => serves = {}
  BY HostFacts DEF NoFile
<1> HIDE DEF link, serves
<1>5. /\ host'.link = link /\ host'.serves = serves
      /\ host'.file = host.file /\ host'.loaded = host.file
  BY <1>1
<1>6. host' \in Hosts
  BY <1>1, <1>2, <1>3, HostFacts DEF Hosts
<1> QED
  BY <1>3, <1>4, <1>5, <1>6, HostFacts, HostEvolves

\* A remove takes the device away, and NetworkManager's its profile.
LEMMA DeletedEvolves ==
  ASSUME IInv, NEW s \in Slots, s \in InFlight, kind # "mikrotik", UNCHANGED router,
         call[s].op = "remove",
         \/ host' \in LinkDeleted
         \/ kind = "network-manager" /\ host' \in ProfileDeleted
  PROVE  Evolves(s)
<1>1. call[s].peers = {}
  BY Belongs
<1>2. CASE host' \in LinkDeleted
  <2>1. host' = [link |-> FALSE, serves |-> {}, file |-> host.file, loaded |-> host.loaded]
    BY <1>2, HostFacts DEF LinkDeleted
  <2>2. /\ host'.serves = {} /\ host'.file = host.file /\ host'.loaded = host.loaded
        /\ host' \in Hosts
    BY <2>1, HostFacts DEF Hosts
  <2> QED
    BY <2>2, <1>1, HostFacts, HostEvolves
<1>3. CASE kind = "network-manager" /\ host' \in ProfileDeleted
  <2>1. host' = [link |-> FALSE, serves |-> {}, file |-> {}, loaded |-> {}]
    BY <1>3 DEF ProfileDeleted, NoFile
  <2>2. /\ host'.serves = {} /\ host'.file = {} /\ host'.loaded = {}
        /\ host' \in Hosts
    BY <2>1 DEF Hosts, Files, NoFile
  <2> QED
    BY <2>2, <1>3, HostEvolves
<1> QED
  BY <1>2, <1>3

LEMMA MovesOn ==
  ASSUME IInv, NEW s \in Slots, s \in InFlight, kind # "mikrotik", Evolves(s),
         NEW x \in CommandsOf(call[s].op),
         ~period.crowded =>
           /\ period.before \cap call[s].peers \subseteq host'.serves
           /\ call[s].op = "apply" => Files2([call[s] EXCEPT !.pc = x], host'),
         GoesOn(s, Then(s, x))
  PROVE  Kept
<1>1. Served(router', host') = host'.serves
  BY DEF Served
<1> QED
  BY <1>1, ThenFine, Moves

LEMMA Completes ==
  ASSUME IInv, NEW s \in Slots, s \in InFlight, kind # "mikrotik", Evolves(s),
         call[s].op = "apply" /\ ~period.crowded => Exact(s),
         NEW d, d.op = call[s].op, GoesOn(s, Completed(d))
  PROVE  Kept
BY CompletedFine, Moves

LEMMA StopsKept ==
  ASSUME IInv, NEW s \in Slots, s \in InFlight, kind # "mikrotik", Evolves(s),
         ~period.crowded => period.before \cap call[s].peers \subseteq host'.serves,
         Stops(s)
  PROVE  Kept
<1>1. Served(router', host') = host'.serves
  BY DEF Served
<1>2. Fine(s, Answer("failed"))
  BY <1>1, FailedFine
<1> QED
  BY <1>2, Moves DEF Stops

\* What a lone call knows of the host.
LEMMA LoneHost ==
  ASSUME IInv, NEW s \in Slots, s \in InFlight, kind # "mikrotik", ~period.crowded
  PROVE  /\ period.before \cap call[s].peers \subseteq host.serves
         /\ ~call[s].gone
         /\ call[s].op = "apply" => Files2(call[s], host)
BY FlightFacts DEF Served, Progress

LEMMA ExactHost ==
  ASSUME IInv, NEW s \in Slots, s \in InFlight, kind # "mikrotik", UNCHANGED router,
         host'.serves = call[s].peers, host'.link,
         host'.file = host.file, host'.loaded = host.loaded,
         UNION host.file \subseteq call[s].peers, UNION host.loaded \subseteq call[s].peers
  PROVE  Exact(s)
<1>1. router.peers = {} /\ Admits(period.involved, router, host)
  BY FlightFacts DEF Admits
<1>2. Admits(call[s].peers, router', host')
  BY <1>1 DEF Admits, KeysOf
<1> QED
  BY <1>2 DEF Exact, Served

---------------------------------------------------------------------------
\* The kernel.
LEMMA KernelKept ==
  ASSUME IInv, NEW s \in Slots, kind # "mikrotik", UNCHANGED router,
         \/ LinkShow(s) \/ LinkAdd(s) \/ AddressAdd(s) \/ LinkUp(s) \/ SyncConf(s) \/ LinkDel(s)
  PROVE  Kept
<1>1. call[s].pc \in {"link-show", "link-add", "address-add", "link-up", "syncconf", "link-del"}
  BY DEF LinkShow, LinkAdd, AddressAdd, LinkUp, SyncConf, LinkDel, Runs, At
<1>2. s \in InFlight
  BY <1>1, Waiting DEF Commands
<1>3. call[s].pc # "link-del" => kind = "self-managed" /\ call[s].op = "apply"
  BY <1>1, <1>2, Belongs
<1>4. call[s].pc # "link-del" =>
        {"link-add", "address-add", "link-up", "syncconf"} \subseteq CommandsOf(call[s].op)
  BY <1>3 DEF CommandsOf, ApplyCommands
<1>5. CASE LinkShow(s) \/ AddressAdd(s) \/ LinkUp(s)
  <2>1. /\ call[s].pc # "link-del" /\ UNCHANGED host
        /\ \E x \in {"link-add", "address-add", "link-up", "syncconf"} : GoesOn(s, Then(s, x))
    BY <1>5 DEF LinkShow, AddressAdd, LinkUp, Runs, At
  <2>2. PICK x \in {"link-add", "address-add", "link-up", "syncconf"} : GoesOn(s, Then(s, x))
    BY <2>1
  <2>3. x \notin FileCommands /\ x \in CommandsOf(call[s].op)
    BY <2>1, <1>4 DEF FileCommands
  <2> QED
    BY <1>2, <2>1, <2>2, <2>3, NoFiles, StayThen
<1>6. CASE LinkAdd(s)
  <2>1. /\ call[s].pc = "link-add" /\ host' = Serving({}) /\ ~host.link
        /\ GoesOn(s, Then(s, "address-add"))
    BY <1>6 DEF LinkAdd, Runs, At, LinkAdded
  <2>2. host.serves = {}
    BY <1>2, <2>1, HostFacts
  <2>3. Evolves(s) /\ host'.serves = {}
    BY <1>2, <2>1, <2>2, ServingEvolves
  <2>4. "address-add" \notin FileCommands /\ "address-add" \in CommandsOf(call[s].op)
    BY <2>1, <1>4 DEF FileCommands
  <2>5. ~period.crowded => period.before \cap call[s].peers \subseteq host'.serves
    BY <1>2, <2>2, <2>3, LoneHost
  <2> QED
    BY <1>2, <2>1, <2>3, <2>4, <2>5, NoFiles, MovesOn
<1>7. CASE SyncConf(s)
  <2>1. call[s].pc = "syncconf" /\ host' \in Synced(call[s]) /\ GoesOn(s, Completed(call[s]))
    BY <1>7 DEF SyncConf, Runs, At
  <2>2. PICK k \in IF call[s].gone THEN SUBSET call[s].peers ELSE {call[s].peers} :
          host' = Serving(k)
    BY <2>1 DEF Synced
  <2>3. k \subseteq period.involved /\ (call[s].gone \/ k = call[s].peers)
    BY <1>2, <2>2, HostFacts
  <2>4. /\ Evolves(s)
        /\ host'.link /\ host'.serves = k /\ host'.file = host.file /\ host'.loaded = host.loaded
    BY <1>2, <2>2, <2>3, ServingEvolves
  <2>5. ASSUME ~period.crowded PROVE Exact(s)
    <3>1. k = call[s].peers
      BY <1>2, <2>3, <2>5, LoneHost
    <3>2. host.file = {} /\ host.loaded = {}
      BY <1>2, <1>3, <2>1, HostFacts
    <3> QED
      BY <1>2, <2>4, <3>1, <3>2, ExactHost
  <2> QED
    BY <1>2, <2>1, <2>4, <2>5, Completes
<1>8. CASE LinkDel(s)
  <2>1. call[s].pc = "link-del" /\ host' \in LinkDeleted /\ GoesOn(s, Completed(call[s]))
    BY <1>8 DEF LinkDel, Runs, At
  <2>2. call[s].op = "remove"
    BY <1>2, <2>1, Belongs
  <2>3. Evolves(s)
    BY <1>2, <2>1, <2>2, DeletedEvolves
  <2> QED
    BY <1>2, <2>1, <2>2, <2>3, Completes
<1> QED
  BY <1>5, <1>6, <1>7, <1>8

---------------------------------------------------------------------------
\* The daemons' files.
LEMMA NextFiles ==
  ASSUME IInv, NEW s \in Slots, s \in InFlight, NEW x, NEW h,
         x = "write" => h.file = {},
         x # "write" => h.file = {call[s].peers},
         x \in {"connection-up", "reconfigure"} => h.loaded = {call[s].peers}
  PROVE  Files2([call[s] EXCEPT !.pc = x], h)
<1>1. [call[s] EXCEPT !.pc = x].pc = x /\ [call[s] EXCEPT !.pc = x].peers = call[s].peers
  BY FlightFacts DEF Calls
<1> QED
  BY <1>1 DEF Files2

LEMMA FileKept ==
  ASSUME IInv, NEW s \in Slots, kind # "mikrotik", UNCHANGED router,
         \/ Truncate(s) \/ WriteFile(s) \/ Protect(s) \/ ConnectionReload(s) \/ ConnectionUp(s)
  PROVE  Kept
<1>1. call[s].pc \in {"truncate", "write", "protect", "connection-reload", "connection-up"}
  BY DEF Truncate, WriteFile, Protect, ConnectionReload, ConnectionUp, Runs, At
<1>2. s \in InFlight
  BY <1>1, Waiting DEF Commands
<1>3. kind \in {"network-manager", "systemd-networkd"} /\ call[s].op = "apply"
  BY <1>1, <1>2, Belongs
<1>4. {"write", "protect"} \subseteq CommandsOf(call[s].op)
  BY <1>3 DEF CommandsOf, ApplyCommands
<1>5. CASE Truncate(s)
  <2>1. host' = [host EXCEPT !.file = {}] /\ GoesOn(s, Then(s, "write"))
    BY <1>5 DEF Truncate, Runs, Emptied, NoFile
  <2>2. {} \in Files
    BY DEF Files, NoFile
  <2>3. Evolves(s) /\ host'.serves = host.serves /\ host'.file = {}
    BY <1>2, <1>3, <2>1, <2>2, FileEvolves
  <2>4. Files2([call[s] EXCEPT !.pc = "write"], host')
    BY <1>2, <2>3, NextFiles
  <2> QED
    BY <1>2, <1>4, <2>1, <2>3, <2>4, LoneHost, MovesOn
<1>6. CASE WriteFile(s)
  <2>1. call[s].pc = "write" /\ host' \in Filled(call[s]) /\ GoesOn(s, Then(s, "protect"))
    BY <1>6 DEF WriteFile, Runs, At
  <2>2. PICK tail \in SUBSET UNION host.file :
          host' = [host EXCEPT !.file = Holding(call[s].peers \cup tail)]
    BY <2>1 DEF Filled
  <2> DEFINE keys == call[s].peers \cup tail
  <2>3. keys \subseteq period.involved /\ keys \in SUBSET Keys
    BY <1>2, HostFacts
  <2>4. {keys} \in Files /\ UNION {keys} \subseteq period.involved /\ Holding(keys) = {keys}
    BY <2>3, FileOf
  <2>5. Evolves(s) /\ host'.serves = host.serves /\ host'.file = {keys}
    BY <1>2, <1>3, <2>2, <2>4, FileEvolves
  <2>6. ~period.crowded => host.file = {}
    BY <1>2, <1>3, <2>1, LoneHost DEF Files2
  <2>7. ~period.crowded => keys = call[s].peers
    BY <2>6
  <2>8. ~period.crowded => Files2([call[s] EXCEPT !.pc = "protect"], host')
    BY <1>2, <2>5, <2>7, NextFiles
  <2> QED
    BY <1>2, <1>4, <2>1, <2>5, <2>8, LoneHost, MovesOn
<1>7. CASE Protect(s)
  <2> DEFINE x == IF kind = "network-manager" THEN "connection-reload" ELSE "networkctl-reload"
  <2>1. call[s].pc = "protect" /\ UNCHANGED host /\ GoesOn(s, Then(s, x))
    BY <1>7 DEF Protect, Runs, At
  <2>2. x \in CommandsOf(call[s].op)
    BY <1>3 DEF CommandsOf, ApplyCommands
  <2>3. ~period.crowded => host.file = {call[s].peers}
    BY <1>2, <1>3, <2>1, LoneHost DEF Files2
  <2>4. ~period.crowded => Files2([call[s] EXCEPT !.pc = x], host)
    BY <1>2, <2>3, NextFiles
  <2> QED
    BY <1>2, <2>1, <2>2, <2>4, StayThen
<1>8. CASE ConnectionReload(s)
  <2>1. call[s].pc = "connection-reload" /\ host' \in Loaded /\ GoesOn(s, Then(s, "connection-up"))
    BY <1>8 DEF ConnectionReload, Runs, At
  <2>2. kind = "network-manager"
    BY <1>2, <2>1, Belongs
  <2>3. "connection-up" \in CommandsOf(call[s].op)
    BY <1>3, <2>2 DEF CommandsOf, ApplyCommands
  <2>4. /\ Evolves(s) /\ host'.serves = host.serves
        /\ host'.file = host.file /\ host'.loaded = host.file
    BY <1>2, <2>1, <2>2, LoadedEvolves
  <2>5. ~period.crowded => host.file = {call[s].peers}
    BY <1>2, <1>3, <2>1, LoneHost DEF Files2
  <2>6. ~period.crowded => host'.file = {call[s].peers} /\ host'.loaded = {call[s].peers}
    BY <2>4, <2>5
  <2>7. ~period.crowded => Files2([call[s] EXCEPT !.pc = "connection-up"], host')
    <3> DEFINE x == "connection-up"
    <3>1. x # "write"
      OBVIOUS
    <3> HIDE DEF x
    <3>2. ~period.crowded => Files2([call[s] EXCEPT !.pc = x], host')
      BY <1>2, <2>6, <3>1, NextFiles
    <3> QED
      BY <3>2 DEF x
  <2> QED
    BY <1>2, <2>1, <2>3, <2>4, <2>7, LoneHost, MovesOn
<1>9. CASE ConnectionUp(s)
  <2>1. call[s].pc = "connection-up" /\ host' \in Activated /\ GoesOn(s, Completed(call[s]))
    BY <1>9 DEF ConnectionUp, Runs, At
  <2>2. /\ Evolves(s) /\ host'.serves \in host.loaded
        /\ host'.link /\ host'.file = host.file /\ host'.loaded = host.loaded
    BY <1>2, <1>3, <2>1, ActivatedEvolves
  <2>3. ~period.crowded => host.file = {call[s].peers} /\ host.loaded = {call[s].peers}
    BY <1>2, <1>3, <2>1, LoneHost DEF Files2
  <2>4. ~period.crowded => Exact(s)
    BY <1>2, <2>2, <2>3, ExactHost
  <2> QED
    BY <1>2, <2>1, <2>2, <2>4, Completes
<1> QED
  BY <1>5, <1>6, <1>7, <1>8, <1>9

LEMMA DaemonKept ==
  ASSUME IInv, NEW s \in Slots, kind # "mikrotik", UNCHANGED router,
         \/ ConnectionDelete(s) \/ RemoveFile(s) \/ NetworkReload(s) \/ Reconfigure(s)
  PROVE  Kept
<1>1. call[s].pc \in {"connection-delete", "remove-file", "networkctl-reload", "reconfigure"}
  BY DEF ConnectionDelete, RemoveFile, NetworkReload, Reconfigure, Runs, At
<1>2. s \in InFlight
  BY <1>1, Waiting DEF Commands
<1>3. kind \in {"network-manager", "systemd-networkd"} /\ call[s].op \in {"apply", "remove"}
  BY <1>1, <1>2, Belongs
<1>4. CASE ConnectionDelete(s)
  <2>1. /\ call[s].pc = "connection-delete" /\ host' \in ProfileDeleted
        /\ GoesOn(s, Then(s, "remove-file"))
    BY <1>4 DEF ConnectionDelete, Runs, At
  <2>2. kind = "network-manager" /\ call[s].op = "remove" /\ call[s].peers = {}
    BY <1>2, <2>1, Belongs
  <2>3. "remove-file" \in CommandsOf(call[s].op)
    BY <2>2 DEF CommandsOf, RemoveCommands
  <2>4. Evolves(s)
    BY <1>2, <2>1, <2>2, DeletedEvolves
  <2> QED
    BY <1>2, <2>1, <2>2, <2>3, <2>4, MovesOn
<1>5. CASE RemoveFile(s)
  <2>1. /\ call[s].pc = "remove-file" /\ host' = [host EXCEPT !.file = {}]
        /\ GoesOn(s, IF kind = "network-manager" THEN Completed(call[s])
                      ELSE Then(s, "networkctl-reload"))
    BY <1>5 DEF RemoveFile, Runs, At, Emptied, NoFile
  <2>2. call[s].op = "remove" /\ call[s].peers = {}
    BY <1>2, <2>1, Belongs
  <2>3. {} \in Files
    BY DEF Files, NoFile
  <2>4. Evolves(s)
    BY <1>2, <1>3, <2>1, <2>3, FileEvolves
  <2>5. CASE kind = "network-manager"
    BY <1>2, <2>1, <2>2, <2>4, <2>5, Completes
  <2>6. CASE kind # "network-manager"
    <3>1. "networkctl-reload" \in CommandsOf(call[s].op)
      BY <1>3, <2>2, <2>6 DEF CommandsOf, RemoveCommands
    <3> QED
      BY <1>2, <2>1, <2>2, <2>4, <2>6, <3>1, MovesOn
  <2> QED
    BY <2>5, <2>6
<1>6. CASE NetworkReload(s)
  <2> DEFINE x == IF call[s].op = "apply" THEN "reconfigure" ELSE "link-del"
  <2>1. call[s].pc = "networkctl-reload" /\ host' \in Reloaded /\ GoesOn(s, Then(s, x))
    BY <1>6 DEF NetworkReload, Runs, At
  <2>2. kind = "systemd-networkd"
    BY <1>2, <2>1, Belongs
  <2>3. x \in CommandsOf(call[s].op)
    BY <1>3, <2>2 DEF CommandsOf, ApplyCommands, RemoveCommands
  <2>4. /\ Evolves(s) /\ host.serves \subseteq host'.serves
        /\ host'.file = host.file /\ host'.loaded = host.file
    BY <1>2, <2>1, <2>2, ReloadedEvolves
  <2>5. ~period.crowded /\ call[s].op = "apply" => host.file = {call[s].peers}
    BY <1>2, <1>3, <2>1, LoneHost DEF Files2
  <2>6. ~period.crowded /\ call[s].op = "apply" => Files2([call[s] EXCEPT !.pc = x], host')
    <3>1. call[s].op = "apply" => x = "reconfigure"
      OBVIOUS
    <3> HIDE DEF x
    <3> QED
      BY <1>2, <2>4, <2>5, <3>1, NextFiles
  <2>7. ~period.crowded => period.before \cap call[s].peers \subseteq host'.serves
    BY <1>2, <2>4, LoneHost
  <2> QED
    BY <1>2, <2>1, <2>3, <2>4, <2>6, <2>7, MovesOn
<1>7. CASE Reconfigure(s)
  <2>1. call[s].pc = "reconfigure" /\ host' \in Activated /\ GoesOn(s, Completed(call[s]))
    BY <1>7 DEF Reconfigure, Runs, At, Reconfigured
  <2>2. call[s].op = "apply"
    BY <1>2, <2>1, Belongs
  <2>3. /\ Evolves(s) /\ host'.serves \in host.loaded
        /\ host'.link /\ host'.file = host.file /\ host'.loaded = host.loaded
    BY <1>2, <1>3, <2>1, ActivatedEvolves
  <2>4. ~period.crowded => host.file = {call[s].peers} /\ host.loaded = {call[s].peers}
    BY <1>2, <2>1, <2>2, LoneHost DEF Files2
  <2>5. ~period.crowded => Exact(s)
    BY <1>2, <2>3, <2>4, ExactHost
  <2> QED
    BY <1>2, <2>1, <2>3, <2>5, Completes
<1> QED
  BY <1>4, <1>5, <1>6, <1>7

---------------------------------------------------------------------------
\* Failures.
LEMMA HalfDoneCases ==
  ASSUME NEW c, NEW h \in HalfDone(c)
  PROVE  \/ h = host
         \/ c.pc = "syncconf" /\ \E k \in Partly(c.peers) : h = Serving(k)
         \/ c.pc = "truncate" /\ h \in Emptied
         \/ c.pc = "write" /\ \E k \in SUBSET c.peers : h = [host EXCEPT !.file = Holding(k)]
         \/ c.pc = "connection-reload" /\ h \in Loaded
         \/ c.pc = "connection-up" /\ h \in Activated
         \/ c.pc = "networkctl-reload" /\ h \in Reloaded
<1> DEFINE rest == CASE c.pc = "syncconf" /\ host.link -> {Serving(k) : k \in Partly(c.peers)}
                     [] c.pc = "truncate" -> Emptied
                     [] c.pc = "write" -> {[host EXCEPT !.file = Holding(k)] : k \in SUBSET c.peers}
                     [] c.pc = "connection-reload" -> Loaded
                     [] c.pc = "connection-up" -> Activated
                     [] c.pc = "networkctl-reload" -> Reloaded
                     [] OTHER -> {}
<1>1. h = host \/ h \in rest
  BY DEF HalfDone
<1>2. CASE c.pc = "syncconf" /\ host.link
  <2>1. rest = {Serving(k) : k \in Partly(c.peers)}
    BY <1>2
  <2> HIDE DEF rest
  <2> QED
    BY <1>1, <1>2, <2>1
<1>3. CASE c.pc = "truncate"
  <2>1. rest = Emptied
    BY <1>3
  <2> HIDE DEF rest
  <2> QED
    BY <1>1, <1>3, <2>1
<1>4. CASE c.pc = "write"
  <2>1. rest = {[host EXCEPT !.file = Holding(k)] : k \in SUBSET c.peers}
    BY <1>4
  <2> HIDE DEF rest
  <2> QED
    BY <1>1, <1>4, <2>1
<1>5. CASE c.pc = "connection-reload"
  <2>1. rest = Loaded
    BY <1>5
  <2> HIDE DEF rest
  <2> QED
    BY <1>1, <1>5, <2>1
<1>6. CASE c.pc = "connection-up"
  <2>1. rest = Activated
    BY <1>6
  <2> HIDE DEF rest
  <2> QED
    BY <1>1, <1>6, <2>1
<1>7. CASE c.pc = "networkctl-reload"
  <2>1. rest = Reloaded
    BY <1>7
  <2> HIDE DEF rest
  <2> QED
    BY <1>1, <1>7, <2>1
<1>8. CASE /\ ~(c.pc = "syncconf" /\ host.link)
           /\ c.pc \notin {"truncate", "write", "connection-reload", "connection-up",
                           "networkctl-reload"}
  <2>1. rest = {}
    BY <1>8
  <2> HIDE DEF rest
  <2> QED
    BY <1>1, <2>1
<1> QED
  BY <1>2, <1>3, <1>4, <1>5, <1>6, <1>7, <1>8

LEMMA CommandFailsKept ==
  ASSUME IInv, NEW s \in Slots, kind # "mikrotik", UNCHANGED router, CommandFails(s)
  PROVE  Kept
<1>1. call[s].op = "apply" /\ host' \in HalfDone(call[s]) /\ Stops(s)
  BY DEF CommandFails
<1>2. s \in InFlight
  <2>1. call[s].pc \in Commands
    BY DEF CommandFails, Commands
  <2> QED
    BY <2>1, Waiting
<1>3. ASSUME Evolves(s), ~period.crowded => period.before \cap call[s].peers \subseteq host'.serves
      PROVE  Kept
  BY <1>1, <1>2, <1>3, StopsKept
<1>4. CASE host' = host
  <2>1. ~period.crowded => period.before \cap call[s].peers \subseteq host'.serves
    BY <1>2, <1>4, LoneHost
  <2> QED
    BY <1>2, <1>3, <1>4, <2>1, HostStays
<1>5. CASE call[s].pc = "syncconf" /\ \E k \in Partly(call[s].peers) : host' = Serving(k)
  <2>1. PICK k \in Partly(call[s].peers) : host' = Serving(k)
    BY <1>5
  <2>2. k \subseteq period.involved /\ host.serves \cap call[s].peers \subseteq k
    BY <1>2, HostFacts DEF Partly
  <2>3. Evolves(s) /\ host'.serves = k
    BY <1>2, <2>1, <2>2, ServingEvolves
  <2> QED
    BY <1>2, <1>3, <2>2, <2>3, LoneHost
<1>6. CASE call[s].pc = "truncate" /\ host' \in Emptied
  <2>1. host' = [host EXCEPT !.file = {}]
    BY <1>6 DEF Emptied, NoFile
  <2>2. {} \in Files
    BY DEF Files, NoFile
  <2>3. Evolves(s) /\ host'.serves = host.serves
    BY <1>2, <1>6, <2>1, <2>2, Belongs, FileEvolves
  <2> QED
    BY <1>2, <1>3, <2>3, LoneHost
<1>7. CASE /\ call[s].pc = "write"
           /\ \E k \in SUBSET call[s].peers : host' = [host EXCEPT !.file = Holding(k)]
  <2>1. PICK k \in SUBSET call[s].peers : host' = [host EXCEPT !.file = Holding(k)]
    BY <1>7
  <2>2. k \in SUBSET Keys /\ k \subseteq period.involved
    BY <1>2, HostFacts
  <2>3. {k} \in Files /\ UNION {k} \subseteq period.involved /\ Holding(k) = {k}
    BY <2>2, FileOf
  <2>4. Evolves(s) /\ host'.serves = host.serves
    BY <1>2, <1>7, <2>1, <2>3, Belongs, FileEvolves
  <2> QED
    BY <1>2, <1>3, <2>4, LoneHost
<1>8. CASE call[s].pc = "connection-reload" /\ host' \in Loaded
  <2>1. Evolves(s) /\ host'.serves = host.serves
    BY <1>2, <1>8, Belongs, LoadedEvolves
  <2> QED
    BY <1>2, <1>3, <2>1, LoneHost
<1>9. CASE call[s].pc = "connection-up" /\ host' \in Activated
  <2>1. Evolves(s) /\ host'.serves \in host.loaded
    BY <1>2, <1>9, Belongs, ActivatedEvolves
  <2>2. ~period.crowded => host.loaded = {call[s].peers}
    BY <1>1, <1>2, <1>9, LoneHost DEF Files2
  <2> QED
    BY <1>3, <2>1, <2>2
<1>10. CASE call[s].pc = "networkctl-reload" /\ host' \in Reloaded
  <2>1. Evolves(s) /\ host.serves \subseteq host'.serves
    BY <1>2, <1>10, Belongs, ReloadedEvolves
  <2> QED
    BY <1>2, <1>3, <2>1, LoneHost
<1> QED
  BY <1>1, <1>4, <1>5, <1>6, <1>7, <1>8, <1>9, <1>10, HalfDoneCases

LEMMA FailureIgnoredKept ==
  ASSUME IInv, NEW s \in Slots, kind # "mikrotik", UNCHANGED router, FailureIgnored(s)
  PROVE  Kept
<1>1. UNCHANGED host
  BY DEF FailureIgnored
<1>2. call[s].pc \in {"link-show", "address-add", "reconfigure", "connection-delete", "remove-file",
                      "networkctl-reload", "link-del"}
  BY DEF FailureIgnored, At
<1>3. s \in InFlight
  BY <1>2, Waiting DEF Commands
<1>4. ASSUME NEW x \in CommandsOf(call[s].op), x \notin FileCommands, GoesOn(s, Then(s, x))
      PROVE  Kept
  BY <1>1, <1>3, <1>4, NoFiles, StayThen
<1>5. ASSUME call[s].op = "remove", GoesOn(s, Completed(call[s]))
      PROVE  Kept
  BY <1>1, <1>3, <1>5, HostStays, Completes
<1>6. CASE At(s, "link-show") /\ GoesOn(s, Then(s, "link-add"))
  <2>1. kind = "self-managed" /\ call[s].op = "apply"
    BY <1>3, <1>6, Belongs DEF At
  <2>2. "link-add" \in CommandsOf(call[s].op) /\ "link-add" \notin FileCommands
    BY <2>1 DEF CommandsOf, ApplyCommands, FileCommands
  <2> QED
    BY <1>4, <1>6, <2>2
<1>7. CASE At(s, "address-add") /\ GoesOn(s, Then(s, "link-up"))
  <2>1. kind = "self-managed" /\ call[s].op = "apply"
    BY <1>3, <1>7, Belongs DEF At
  <2>2. "link-up" \in CommandsOf(call[s].op) /\ "link-up" \notin FileCommands
    BY <2>1 DEF CommandsOf, ApplyCommands, FileCommands
  <2> QED
    BY <1>4, <1>7, <2>2
<1>8. CASE At(s, "reconfigure") /\ GoesOn(s, {Answer("unsure")})
  BY <1>1, <1>3, <1>8, StayStops
<1>9. CASE At(s, "connection-delete") /\ GoesOn(s, Then(s, "remove-file"))
  <2>1. kind = "network-manager" /\ call[s].op = "remove"
    BY <1>3, <1>9, Belongs DEF At
  <2>2. "remove-file" \in CommandsOf(call[s].op) /\ "remove-file" \notin FileCommands
    BY <2>1 DEF CommandsOf, RemoveCommands, FileCommands
  <2> QED
    BY <1>4, <1>9, <2>2
<1>10. CASE /\ At(s, "remove-file")
            /\ GoesOn(s, IF kind = "network-manager" THEN Completed(call[s])
                          ELSE Then(s, "networkctl-reload"))
  <2>1. kind \in {"network-manager", "systemd-networkd"} /\ call[s].op = "remove"
    BY <1>3, <1>10, Belongs DEF At
  <2>2. CASE kind = "network-manager"
    BY <1>5, <1>10, <2>1, <2>2
  <2>3. CASE kind = "systemd-networkd"
    <3>1. "networkctl-reload" \in CommandsOf(call[s].op)
      BY <2>1, <2>3 DEF CommandsOf, RemoveCommands
    <3>2. GoesOn(s, Then(s, "networkctl-reload"))
      BY <1>10, <2>3
    <3> QED
      BY <1>1, <1>3, <2>1, <3>1, <3>2, StayThen
  <2> QED
    BY <2>1, <2>2, <2>3
<1>11. CASE /\ At(s, "networkctl-reload")
            /\ call[s].op = "remove"
            /\ GoesOn(s, Then(s, "link-del"))
  <2>1. kind = "systemd-networkd"
    BY <1>3, <1>11, Belongs DEF At
  <2>2. "link-del" \in CommandsOf(call[s].op) /\ "link-del" \notin FileCommands
    BY <1>11, <2>1 DEF CommandsOf, RemoveCommands, FileCommands
  <2> QED
    BY <1>4, <1>11, <2>2
<1>12. CASE At(s, "link-del") /\ GoesOn(s, Completed(call[s]))
  <2>1. call[s].op = "remove"
    BY <1>3, <1>12, Belongs DEF At
  <2> QED
    BY <1>5, <1>12, <2>1
<1> QED
  BY <1>6, <1>7, <1>8, <1>9, <1>10, <1>11, <1>12 DEF FailureIgnored

LEMMA LocalKept ==
  ASSUME IInv, NEW s \in Slots, kind # "mikrotik", UNCHANGED router, AgentStep(s)
  PROVE  Kept
BY AgentKept, KernelKept, FileKept, DaemonKept, CommandFailsKept, FailureIgnoredKept
DEF AgentStep, LocalStep

---------------------------------------------------------------------------
\* The router.

LEMMA RouterFacts ==
  ASSUME IInv, kind = "mikrotik"
  PROVE  /\ router \in Routers
         /\ router = [iface |-> router.iface, addrs |-> router.addrs, peers |-> router.peers,
                      last |-> router.last]
         /\ router.iface \in SUBSET Nat /\ router.last \in Nat
         /\ router.addrs \in SUBSET [id : Nat, addr : V4 \cup V6, ours : BOOLEAN]
         /\ router.peers \in SUBSET [id : Nat, key : Keys]
         /\ IsFiniteSet(router.peers) /\ Distinct(router)
         /\ \A i \in router.iface \cup IdsOf(router.addrs) \cup IdsOf(router.peers) :
              i <= router.last
         /\ KeysOf(router.peers) \subseteq period.involved
         /\ host \in Hosts
BY DEF IInv, Types, Routers, Distinct, Admits

LEMMA RouterEvolves ==
  ASSUME IInv, NEW s \in Slots, s \in InFlight, kind = "mikrotik", UNCHANGED host,
         router' \in Routers, IsFiniteSet(router'.peers), Distinct(router'),
         router.last <= router'.last,
         \A p \in router'.peers : p \in router.peers \/ p.id > router.last,
         \A a \in router'.addrs : a \in router.addrs \/ a.id > router.last,
         {a \in router'.addrs : ~a.ours} = {a \in router.addrs : ~a.ours},
         KeysOf(router'.peers) \subseteq period.involved,
         \A k \in Configured(router) \ Configured(router') : k \notin call[s].peers
  PROVE  Evolves(s)
<1>1. Admits(period.involved, router, host)
  BY FlightFacts
<1>2. Admits(period.involved, router', host')
  BY <1>1 DEF Admits
<1>3. \A k \in Served(router, host) \ Served(router', host') : CutsOff(s, k)
  BY DEF Served, CutsOff
<1> QED
  BY <1>2, <1>3, RouterFacts DEF Evolves

LEMMA RouterStays ==
  ASSUME IInv, NEW s \in Slots, s \in InFlight, kind = "mikrotik", UNCHANGED <<router, host>>
  PROVE  Evolves(s)
<1>1. router.last <= router'.last
  BY RouterFacts
<1> QED
  BY <1>1, RouterFacts, RouterEvolves

LEMMA InterfaceAdded ==
  ASSUME IInv, NEW s \in Slots, s \in InFlight, kind = "mikrotik", UNCHANGED host,
         router' = WithInterface
  PROVE  /\ Evolves(s)
         /\ router'.iface # {} /\ router'.addrs = router.addrs /\ router'.peers = router.peers
<1>1. router' = [iface |-> {router.last + 1}, addrs |-> router.addrs, peers |-> router.peers,
                 last |-> router.last + 1]
  BY RouterFacts DEF WithInterface, NewId
<1>2. /\ router'.iface = {router.last + 1} /\ router'.addrs = router.addrs
      /\ router'.peers = router.peers /\ router'.last = router.last + 1
  BY <1>1
<1>3. router' \in Routers
  BY <1>1, RouterFacts DEF Routers
<1>4. \A i \in IdsOf(router.addrs) \cup IdsOf(router.peers) : i \in Nat /\ i <= router.last
  BY RouterFacts DEF IdsOf
<1>5. \A i \in router'.iface \cup IdsOf(router'.addrs) \cup IdsOf(router'.peers) : i <= router'.last
  BY <1>2, <1>4, RouterFacts
<1>6. Distinct(router')
  BY <1>2, <1>5, RouterFacts DEF Distinct
<1>7. Configured(router) \subseteq Configured(router')
  BY <1>2 DEF Configured
<1> QED
  BY <1>2, <1>3, <1>6, <1>7, RouterFacts, RouterEvolves

LEMMA AddressAdded ==
  ASSUME IInv, NEW s \in Slots, s \in InFlight, kind = "mikrotik", UNCHANGED host,
         NEW addr \in V4 \cup V6, router' = WithAddress(addr)
  PROVE  /\ Evolves(s)
         /\ router'.iface = router.iface /\ router'.peers = router.peers
         /\ router'.addrs =
              router.addrs \cup {[id |-> router.last + 1, addr |-> addr, ours |-> TRUE]}
<1> DEFINE new == [id |-> router.last + 1, addr |-> addr, ours |-> TRUE]
<1>1. router' = [iface |-> router.iface, addrs |-> router.addrs \cup {new},
                 peers |-> router.peers, last |-> router.last + 1]
  BY RouterFacts DEF WithAddress, NewId
<1>2. new \in [id : Nat, addr : V4 \cup V6, ours : BOOLEAN] /\ new.id = router.last + 1 /\ new.ours
  BY RouterFacts
<1> HIDE DEF new
<1>3. /\ router'.iface = router.iface /\ router'.peers = router.peers
      /\ router'.addrs = router.addrs \cup {new} /\ router'.last = router.last + 1
  BY <1>1
<1>4. router' \in Routers
  BY <1>1, <1>2, RouterFacts DEF Routers
<1>5. \A i \in router.iface \cup IdsOf(router.addrs) \cup IdsOf(router.peers) :
        i \in Nat /\ i <= router.last
  BY RouterFacts DEF IdsOf
<1>6. \A i \in router'.iface \cup IdsOf(router'.addrs) \cup IdsOf(router'.peers) : i <= router'.last
  BY <1>2, <1>3, <1>5, RouterFacts DEF IdsOf
<1>7. \A a \in router.addrs : a.id # new.id
  BY <1>2, <1>5, RouterFacts DEF IdsOf
<1>8. Distinct(router')
  BY <1>3, <1>6, <1>7, RouterFacts DEF Distinct
<1>9. Configured(router) = Configured(router')
  BY <1>3 DEF Configured
<1>10. Evolves(s)
  BY <1>2, <1>3, <1>4, <1>8, <1>9, RouterFacts, RouterEvolves
<1> QED
  BY <1>3, <1>10 DEF new

LEMMA AddressRemoved ==
  ASSUME IInv, NEW s \in Slots, s \in InFlight, kind = "mikrotik", UNCHANGED host,
         At(s, "delete-address"), NEW i \in call[s].doomed, router' = WithoutAddress(i)
  PROVE  /\ Evolves(s)
         /\ router'.iface = router.iface /\ router'.peers = router.peers
         /\ router'.addrs = {a \in router.addrs : a.id # i}
<1> DEFINE stay == {a \in router.addrs : a.id # i}
<1>1. router' = [iface |-> router.iface, addrs |-> stay,
                 peers |-> router.peers, last |-> router.last]
  BY RouterFacts DEF WithoutAddress
<1>0. stay \subseteq router.addrs /\ \A a \in router.addrs \ stay : a.id = i
  OBVIOUS
<1> HIDE DEF stay
<1>2. /\ router'.iface = router.iface /\ router'.peers = router.peers
      /\ router'.addrs = stay /\ router'.last = router.last
  BY <1>1
<1>3. router' \in Routers
  BY <1>0, <1>1, RouterFacts DEF Routers
<1>4. Distinct(router')
  BY <1>0, <1>2, RouterFacts DEF Distinct, IdsOf
<1>5. OursOnly(call[s], router)
  BY FlightFacts DEF CallInv, Staged, At
<1>6. {a \in router'.addrs : ~a.ours} = {a \in router.addrs : ~a.ours}
  BY <1>0, <1>2, <1>5 DEF OursOnly
<1>7. Configured(router) = Configured(router')
  BY <1>2 DEF Configured
<1>8. router.last <= router'.last
  BY <1>2, RouterFacts
<1>9. Evolves(s)
  BY <1>0, <1>2, <1>3, <1>4, <1>6, <1>7, <1>8, RouterFacts, RouterEvolves
<1> QED
  BY <1>2, <1>9 DEF stay

LEMMA PeerAdded ==
  ASSUME IInv, NEW s \in Slots, s \in InFlight, kind = "mikrotik", UNCHANGED host,
         NEW k \in call[s].peers, router' = WithPeer(k)
  PROVE  /\ Evolves(s)
         /\ router'.iface = router.iface /\ router'.addrs = router.addrs
         /\ router'.peers = router.peers \cup {[id |-> router.last + 1, key |-> k]}
<1> DEFINE new == [id |-> router.last + 1, key |-> k]
<1>0. k \in period.involved /\ k \in Keys
  BY FlightFacts DEF Calls
<1>1. router' = [iface |-> router.iface, addrs |-> router.addrs,
                 peers |-> router.peers \cup {new}, last |-> router.last + 1]
  BY RouterFacts DEF WithPeer, NewId
<1>2. new \in [id : Nat, key : Keys] /\ new.id = router.last + 1 /\ new.key = k
  BY <1>0, RouterFacts
<1> HIDE DEF new
<1>3. /\ router'.iface = router.iface /\ router'.addrs = router.addrs
      /\ router'.peers = router.peers \cup {new} /\ router'.last = router.last + 1
  BY <1>1
<1>4. router' \in Routers
  BY <1>1, <1>2, RouterFacts DEF Routers
<1>5. \A i \in router.iface \cup IdsOf(router.addrs) \cup IdsOf(router.peers) :
        i \in Nat /\ i <= router.last
  BY RouterFacts DEF IdsOf
<1>6. \A i \in router'.iface \cup IdsOf(router'.addrs) \cup IdsOf(router'.peers) : i <= router'.last
  BY <1>2, <1>3, <1>5, RouterFacts DEF IdsOf
<1>7. \A p \in router.peers : p.id # new.id
  BY <1>2, <1>5, RouterFacts DEF IdsOf
<1>8. Distinct(router')
  BY <1>3, <1>6, <1>7, RouterFacts DEF Distinct
<1>9. Configured(router) \subseteq Configured(router')
  BY <1>3 DEF Configured
<1>10. IsFiniteSet(router'.peers)
  BY <1>3, RouterFacts, FS_AddElement
<1>11. KeysOf(router'.peers) \subseteq period.involved
  BY <1>0, <1>2, <1>3, RouterFacts DEF KeysOf
<1>12. router.last <= router'.last
  BY <1>3, RouterFacts
<1>13. \A p \in router'.peers : p \in router.peers \/ p.id > router.last
  BY <1>2, <1>3, RouterFacts
<1>14. Evolves(s)
  BY <1>3, <1>4, <1>8, <1>9, <1>10, <1>11, <1>12, <1>13, RouterEvolves
<1> QED
  BY <1>3, <1>14 DEF new

LEMMA PeersRemoved ==
  ASSUME IInv, NEW s \in Slots, s \in InFlight, kind = "mikrotik", UNCHANGED host,
         At(s, "delete-peer"), router' = WithoutPeers(call[s].found)
  PROVE  /\ Evolves(s)
         /\ router'.iface = router.iface /\ router'.addrs = router.addrs
         /\ router'.peers = {p \in router.peers : p.id \notin call[s].found}
<1> DEFINE stay == {p \in router.peers : p.id \notin call[s].found}
<1>1. router' = [iface |-> router.iface, addrs |-> router.addrs, peers |-> stay,
                 last |-> router.last]
  BY RouterFacts DEF WithoutPeers
<1>0. /\ stay \subseteq router.peers
      /\ \A p \in router.peers \ stay : p.id \in call[s].found
  OBVIOUS
<1> HIDE DEF stay
<1>2. /\ router'.iface = router.iface /\ router'.addrs = router.addrs
      /\ router'.peers = stay /\ router'.last = router.last
  BY <1>1
<1>3. router' \in Routers
  BY <1>0, <1>1, RouterFacts DEF Routers
<1>4. Distinct(router')
  BY <1>0, <1>2, RouterFacts DEF Distinct, IdsOf
<1>5. /\ call[s].key \cap call[s].peers = {}
      /\ \A p \in router.peers : p.id \in call[s].found => p.key \in call[s].key
  BY FlightFacts DEF CallInv, Staged, OldCommands, At
<1>6. \A k \in Configured(router) \ Configured(router') : k \notin call[s].peers
  BY <1>0, <1>2, <1>5 DEF Configured
<1>7. IsFiniteSet(router'.peers)
  BY <1>0, <1>2, RouterFacts, FS_Subset
<1>8. router.last <= router'.last
  BY <1>2, RouterFacts
<1>9. KeysOf(router'.peers) \subseteq period.involved
  BY <1>0, <1>2, RouterFacts DEF KeysOf
<1>10. Evolves(s)
  BY <1>0, <1>2, <1>3, <1>4, <1>6, <1>7, <1>8, <1>9, RouterFacts, RouterEvolves
<1> QED
  BY <1>2, <1>10 DEF stay

LEMMA InterfaceRemoved ==
  ASSUME IInv, NEW s \in Slots, s \in InFlight, kind = "mikrotik", UNCHANGED host,
         call[s].op = "remove", NEW ids, router' = WithoutInterface(ids)
  PROVE  Evolves(s)
<1>1. router' = [iface |-> router.iface \ ids, addrs |-> router.addrs, peers |-> router.peers,
                 last |-> router.last]
  BY RouterFacts DEF WithoutInterface
<1>2. /\ router'.iface = router.iface \ ids /\ router'.addrs = router.addrs
      /\ router'.peers = router.peers /\ router'.last = router.last
  BY <1>1
<1>3. router' \in Routers
  BY <1>1, RouterFacts DEF Routers
<1>4. Distinct(router')
  BY <1>2, RouterFacts DEF Distinct, IdsOf
<1>5. call[s].peers = {}
  BY FlightFacts DEF CallInv, Holds
<1>6. router.last <= router'.last
  BY <1>2, RouterFacts
<1> QED
  BY <1>2, <1>3, <1>4, <1>5, <1>6, RouterFacts, RouterEvolves

---------------------------------------------------------------------------
\* Counting a device's entries.
LEMMA EntriesCount ==
  ASSUME NEW E, IsFiniteSet(E), NEW k
  PROVE  IsFiniteSet(Entries(E, k)) /\ Cardinality(Entries(E, k)) \in Nat
<1>1. IsFiniteSet(Entries(E, k))
  BY FS_Subset DEF Entries
<1> QED
  BY <1>1, FS_CardinalityType

LEMMA EntriesLess ==
  ASSUME NEW E, IsFiniteSet(E), NEW e \in E, NEW k
  PROVE  Cardinality(Entries(E, k))
           = Cardinality(Entries(E \ {e}, k)) + (IF e.key = k THEN 1 ELSE 0)
<1>1. IsFiniteSet(E \ {e})
  BY FS_Subset
<1>2. CASE e.key = k
  <2>1. Entries(E \ {e}, k) = Entries(E, k) \ {e} /\ e \in Entries(E, k)
    BY <1>2 DEF Entries
  <2>2. Cardinality(Entries(E, k) \ {e}) = Cardinality(Entries(E, k)) - 1
    BY <2>1, EntriesCount, FS_RemoveElement
  <2>3. Cardinality(Entries(E, k)) \in Nat
    BY EntriesCount
  <2>4. Cardinality(Entries(E \ {e}, k)) = Cardinality(Entries(E, k)) - 1
    BY <2>1, <2>2
  <2> QED
    BY <1>2, <2>3, <2>4
<1>3. CASE e.key # k
  <2>1. Entries(E \ {e}, k) = Entries(E, k)
    BY <1>3 DEF Entries
  <2>2. Cardinality(Entries(E, k)) \in Nat
    BY EntriesCount
  <2> QED
    BY <1>3, <2>1, <2>2
<1> QED
  BY <1>2, <1>3

LEMMA NoEntries ==
  ASSUME NEW E, IsFiniteSet(E), NEW k, Cardinality(Entries(E, k)) <= 0
  PROVE  k \notin KeysOf(E)
<1>1. Cardinality(Entries(E, k)) = 0 /\ IsFiniteSet(Entries(E, k))
  BY EntriesCount
<1>2. Entries(E, k) = {}
  BY <1>1, FS_EmptySet
<1> QED
  BY <1>2 DEF Entries, KeysOf

---------------------------------------------------------------------------
\* A call to the router that goes on.

\* A call as it goes on: the same caller, the same wish.
Same(s, c) ==
  /\ c.op = call[s].op /\ c.peers = call[s].peers /\ c.tunnel = call[s].tunnel
  /\ c.gone = call[s].gone

LoneApply(s) == ~period.crowded /\ call[s].op = "apply"

LEMMA RouterKeeps ==
  ASSUME IInv, NEW s \in Slots, s \in InFlight, kind = "mikrotik", Evolves(s), ~period.crowded
  PROVE  period.before \cap call[s].peers \subseteq Served(router', host')
<1>1. period.before \cap call[s].peers \subseteq Served(router, host)
  BY FlightFacts
<1>2. \A k \in Served(router, host) \ Served(router', host') : k \notin call[s].peers
  BY DEF Evolves, CutsOff
<1> QED
  BY <1>1, <1>2

LEMMA RouterFine ==
  ASSUME IInv, NEW s \in Slots, s \in InFlight, kind = "mikrotik", Evolves(s),
         NEW c \in Calls, CallInv(c, router'), c.pc \in Commands, Same(s, c),
         LoneApply(s) => Addresses(c, router') /\ Devices(c, router')
  PROVE  Fine(s, c)
<1>1. c.pc \notin Answered \cup {"idle"}
  BY StageFacts
<1>2. ~period.crowded => Progress(c, router', host')
  BY DEF Progress, Same, LoneApply
<1>3. c.pc # "idle" /\ c.pc \notin Answered /\ c.pc # "ok"
  BY <1>1 DEF Answered
<1>4. ~period.crowded => period.before \cap call[s].peers \subseteq Served(router', host')
  BY RouterKeeps
<1> QED
  BY <1>2, <1>3, <1>4 DEF Fine, Same

\* What a lone apply has done once the addresses are in place.
Addressed(s) == router'.iface # {} /\ OurAddrs(router') = call[s].tunnel

LEMMA NextPeerFine ==
  ASSUME IInv, NEW s \in Slots, s \in InFlight, kind = "mikrotik", Evolves(s),
         NEW c \in Calls, Same(s, c), Holds(c, router'),
         \A e \in c.todo : e.key \notin c.peers,
         LoneApply(s) =>
           /\ Addressed(s)
           /\ c.peers \subseteq c.rest \cup KeysOf(router'.peers)
           /\ \A k \in Keys \ c.peers :
                Cardinality(Entries(router'.peers, k)) <= Cardinality(Entries(c.todo, k))
  PROVE  \A d \in NextPeer(c) : Fine(s, d)
<1>1. /\ c.op \in {"apply", "remove"} /\ c.op = call[s].op
      /\ c.todo \in SUBSET [id : Nat, key : Keys] /\ c.rest \subseteq Keys
      /\ IsFiniteSet(c.todo) /\ IsFiniteSet(router'.peers)
      /\ router'.peers \in SUBSET [id : Nat, key : Keys]
  BY FlightFacts DEF Same, Calls, Holds, Evolves, Routers
<1>2. ASSUME NEW e \in c.todo
      PROVE  Fine(s, [c EXCEPT !.todo = @ \ {e}, !.key = {e.key}, !.pc = "find-old"])
  <2> DEFINE d == [c EXCEPT !.todo = @ \ {e}, !.key = {e.key}, !.pc = "find-old"]
  <2>1. /\ d \in Calls /\ d.pc = "find-old" /\ d.todo = c.todo \ {e} /\ d.key = {e.key}
        /\ d.op = c.op /\ d.peers = c.peers /\ d.tunnel = c.tunnel /\ d.gone = c.gone
        /\ d.rest = c.rest /\ d.found = c.found /\ d.doomed = c.doomed
        /\ d.missing = c.missing /\ d.family = c.family
    BY <1>1, <1>2 DEF Calls, Stages, Commands
  <2> HIDE DEF d
  <2>2. IsFiniteSet(d.todo)
    BY <2>1, <1>1, FS_Subset
  <2>3. "find-old" \in CommandsOf(c.op)
    BY <1>1 DEF CommandsOf, ApplyCommands, RemoveCommands, PeerCommands, OldCommands
  <2>4. Holds(d, router')
    BY <2>1, <2>2, <1>1 DEF Holds, IdsOf
  <2>5. Staged(d, router')
    BY <2>1, <2>3, <1>1 DEF Staged, Answered, OldCommands, NewCommands
  <2>6. ASSUME LoneApply(s) PROVE Addresses(d, router') /\ Devices(d, router')
    <3>1. Addresses(d, router')
      BY <2>1, <2>6 DEF Addresses, Addressed, AddressCommands, Same
    <3>2. \A k \in Keys \ d.peers :
            Cardinality(Entries(router'.peers, k))
              <= Cardinality(Entries(d.todo, k)) + (IF k \in d.key THEN 1 ELSE 0)
      <4> TAKE k \in Keys \ d.peers
      <4>1. Cardinality(Entries(router'.peers, k)) <= Cardinality(Entries(c.todo, k))
        BY <2>1, <2>6
      <4>2. Cardinality(Entries(c.todo, k))
              = Cardinality(Entries(d.todo, k)) + (IF e.key = k THEN 1 ELSE 0)
        BY <2>1, <1>1, EntriesLess
      <4>3. (k \in d.key) <=> (e.key = k)
        BY <2>1
      <4> QED
        BY <4>1, <4>2, <4>3
    <3>3. d.peers \subseteq d.rest \cup KeysOf(router'.peers)
      BY <2>1, <2>6
    <3>4. router'.iface # {}
      BY <2>6 DEF Addressed
    <3>5. d.pc \in OldCommands /\ d.pc \notin NewCommands
          /\ d.pc \notin {"delete-peer", "patch-peer"}
      BY <2>1 DEF OldCommands, NewCommands
    <3>6. Devices(d, router')
      BY <3>2, <3>3, <3>4, <3>5 DEF Devices
    <3> QED
      BY <3>1, <3>6
  <2>7. d.pc \in Commands /\ Same(s, d)
    BY <2>1 DEF Commands, Same
  <2>8. Fine(s, d)
    BY <2>1, <2>4, <2>5, <2>6, <2>7, RouterFine DEF CallInv
  <2> QED
    BY <2>8 DEF d
<1>3. ASSUME c.todo = {}, c.op = "remove"
      PROVE  Fine(s, [c EXCEPT !.pc = "get-interface"])
  <2> DEFINE d == [c EXCEPT !.pc = "get-interface"]
  <2>1. /\ d \in Calls /\ d.pc = "get-interface" /\ d.todo = c.todo /\ d.key = c.key
        /\ d.op = c.op /\ d.peers = c.peers /\ d.tunnel = c.tunnel /\ d.gone = c.gone
        /\ d.rest = c.rest /\ d.found = c.found /\ d.doomed = c.doomed
        /\ d.missing = c.missing /\ d.family = c.family
    BY DEF Calls, Stages, Commands
  <2> HIDE DEF d
  <2>2. "get-interface" \in CommandsOf(c.op)
    BY <1>3 DEF CommandsOf, RemoveCommands
  <2>3. Holds(d, router')
    BY <2>1 DEF Holds
  <2>4. Staged(d, router')
    BY <2>1, <2>2, <1>3 DEF Staged, Answered, OldCommands, NewCommands
  <2>5. d.pc \in Commands /\ Same(s, d) /\ ~LoneApply(s)
    BY <2>1, <1>3 DEF Commands, Same, LoneApply
  <2>6. Fine(s, d)
    BY <2>1, <2>3, <2>4, <2>5, RouterFine DEF CallInv
  <2> QED
    BY <2>6 DEF d
<1>4. ASSUME LoneApply(s), c.todo = {}
      PROVE  KeysOf(router'.peers) \subseteq c.peers
  <2> SUFFICES ASSUME NEW k \in Keys \ c.peers
               PROVE  k \notin KeysOf(router'.peers)
    BY <1>1 DEF KeysOf
  <2>1. Cardinality(Entries(router'.peers, k)) <= Cardinality(Entries(c.todo, k))
    BY <1>4
  <2>2. Entries(c.todo, k) = {}
    BY <1>4 DEF Entries
  <2>3. Cardinality(Entries(router'.peers, k)) <= 0
    BY <2>1, <2>2, FS_EmptySet
  <2> QED
    BY <2>3, <1>1, NoEntries
<1>5. ASSUME c.todo = {}, c.op = "apply", NEW k \in c.rest
      PROVE  Fine(s, [c EXCEPT !.rest = @ \ {k}, !.key = {k}, !.pc = "find-new"])
  <2> DEFINE d == [c EXCEPT !.rest = @ \ {k}, !.key = {k}, !.pc = "find-new"]
  <2>1. /\ d \in Calls /\ d.pc = "find-new" /\ d.rest = c.rest \ {k} /\ d.key = {k}
        /\ d.op = c.op /\ d.peers = c.peers /\ d.tunnel = c.tunnel /\ d.gone = c.gone
        /\ d.todo = c.todo /\ d.found = c.found /\ d.doomed = c.doomed
        /\ d.missing = c.missing /\ d.family = c.family
    BY <1>1 DEF Calls, Stages, Commands
  <2> HIDE DEF d
  <2>2. "find-new" \in CommandsOf(c.op)
    BY <1>5 DEF CommandsOf, ApplyCommands, PeerCommands, NewCommands
  <2>3. Holds(d, router')
    BY <2>1 DEF Holds
  <2>4. k \in c.peers
    BY DEF Holds
  <2>5. Staged(d, router')
    BY <2>1, <2>2, <2>4, <1>5 DEF Staged, Answered, OldCommands, NewCommands
  <2>6. ASSUME LoneApply(s) PROVE Addresses(d, router') /\ Devices(d, router')
    <3>1. Addresses(d, router')
      BY <2>1, <2>6 DEF Addresses, Addressed, AddressCommands, Same
    <3>2. \A l \in Keys \ d.peers :
            Cardinality(Entries(router'.peers, l)) <= Cardinality(Entries(d.todo, l)) + 0
      <4> TAKE l \in Keys \ d.peers
      <4>1. Cardinality(Entries(router'.peers, l)) <= Cardinality(Entries(d.todo, l))
        BY <2>1, <2>6
      <4>2. Cardinality(Entries(d.todo, l)) \in Nat
        BY <2>1, <1>1, EntriesCount
      <4> QED
        BY <4>1, <4>2
    <3>3. d.peers \subseteq d.rest \cup KeysOf(router'.peers) \cup d.key
      BY <2>1, <2>6
    <3>4. router'.iface # {}
      BY <2>6 DEF Addressed
    <3>5. d.pc \in NewCommands /\ d.pc \notin OldCommands
          /\ d.pc \notin {"delete-peer", "patch-peer"}
      BY <2>1 DEF OldCommands, NewCommands
    <3>6. Devices(d, router')
      BY <3>2, <3>3, <3>4, <3>5 DEF Devices
    <3> QED
      BY <3>1, <3>6
  <2>7. d.pc \in Commands /\ Same(s, d)
    BY <2>1 DEF Commands, Same
  <2>8. Fine(s, d)
    BY <2>1, <2>3, <2>5, <2>6, <2>7, RouterFine DEF CallInv
  <2> QED
    BY <2>8 DEF d
<1>6. ASSUME c.todo = {}, c.op = "apply", c.rest = {}
      PROVE  \A d \in Completed(c) : Fine(s, d)
  <2>1. ASSUME ~period.crowded PROVE Exact(s)
    <3>1. LoneApply(s)
      BY <2>1, <1>1, <1>6 DEF LoneApply
    <3>2. KeysOf(router'.peers) = call[s].peers
      BY <3>1, <1>4, <1>6 DEF Same
    <3>3. router'.iface # {} /\ OurAddrs(router') = call[s].tunnel
      BY <3>1 DEF Addressed
    <3>4. Served(router', host') = call[s].peers
      BY <3>2, <3>3 DEF Served, Configured, KeysOf
    <3>5. Admits(call[s].peers, router', host')
      BY <3>2 DEF Admits, Evolves
    <3> QED
      BY <3>3, <3>4, <3>5 DEF Exact
  <2> QED
    BY <2>1, <1>1, CompletedFine
<1> QED
  BY <1>1, <1>2, <1>3, <1>5, <1>6 DEF NextPeer

\* Where a lone apply stands with the addresses of a family.
Reconciling(c) ==
  /\ router'.iface # {}
  /\ \A a \in router'.addrs :
       a.ours /\ a.addr \in Family(c) => a.addr \in c.tunnel \/ a.id \in c.doomed
  /\ Wanted(c) \subseteq OurAddrs(router') \cup c.missing
  /\ c.family = "ipv6" => OurAddrs(router') \cap V4 = c.tunnel \cap V4

LEMMA ListsFamilyFine ==
  ASSUME IInv, NEW s \in Slots, s \in InFlight, kind = "mikrotik", Evolves(s),
         NEW c \in Calls, Same(s, c), Holds(c, router'), NEW family \in {"ip", "ipv6"},
         LoneApply(s) =>
           /\ router'.iface # {}
           /\ family = "ipv6" => OurAddrs(router') \cap V4 = c.tunnel \cap V4
  PROVE  Fine(s, ListsFamily(c, family))
<1> DEFINE d == ListsFamily(c, family)
<1>1. /\ d \in Calls /\ d.pc = "get-addresses" /\ d.family = family /\ d.found = {}
      /\ d.op = c.op /\ d.peers = c.peers /\ d.tunnel = c.tunnel /\ d.gone = c.gone
      /\ d.rest = c.rest /\ d.todo = c.todo /\ d.key = c.key /\ d.doomed = c.doomed
      /\ d.missing = c.missing
  BY DEF ListsFamily, Calls, Stages, Commands
<1> HIDE DEF d
<1>2. c.op \in {"apply", "remove"}
  BY FlightFacts DEF Same
<1>3. "get-addresses" \in CommandsOf(c.op)
  BY <1>2 DEF CommandsOf, ApplyCommands, RemoveCommands, AddressCommands
<1>4. Holds(d, router')
  BY <1>1 DEF Holds
<1>5. Staged(d, router')
  BY <1>1, <1>2, <1>3 DEF Staged, Answered, OldCommands, NewCommands
<1>6. LoneApply(s) => Addresses(d, router') /\ Devices(d, router')
  BY <1>1 DEF Addresses, Devices, AddressCommands, PeerCommands, OldCommands, NewCommands
<1>7. d.pc \in Commands /\ Same(s, d)
  BY <1>1 DEF Commands, Same
<1>8. Fine(s, d)
  BY <1>1, <1>4, <1>5, <1>6, <1>7, RouterFine DEF CallInv
<1> QED
  BY <1>8 DEF d

LEMMA NextAddressFine ==
  ASSUME IInv, NEW s \in Slots, s \in InFlight, kind = "mikrotik", Evolves(s),
         NEW c \in Calls, Same(s, c), Holds(c, router'),
         c.missing \subseteq Wanted(c), OursOnly(c, router'),
         LoneApply(s) => Reconciling(c)
  PROVE  Fine(s, NextAddress(c))
<1>1. /\ c.op \in {"apply", "remove"} /\ c.family \in {"ip", "ipv6"}
      /\ c.tunnel \in SUBSET (V4 \cup V6)
      /\ c.op = "remove" => c.tunnel = {}
      /\ router'.addrs \in SUBSET [id : Nat, addr : V4 \cup V6, ours : BOOLEAN]
  BY FlightFacts DEF Same, Calls, Holds, Evolves, Routers
<1>2. CASE c.doomed # {} \/ c.missing # {}
  <2> DEFINE x == IF c.doomed # {} THEN "delete-address" ELSE "put-address"
             d == [c EXCEPT !.pc = x]
  <2>1. x \in {"delete-address", "put-address"}
    OBVIOUS
  <2>2. x = "put-address" => c.op = "apply"
    BY <1>1, <1>2 DEF Wanted
  <2>3. NextAddress(c) = d
    BY <1>2 DEF NextAddress
  <2> HIDE DEF x
  <2>4. /\ d \in Calls /\ d.pc = x /\ d.family = c.family /\ d.found = c.found
        /\ d.op = c.op /\ d.peers = c.peers /\ d.tunnel = c.tunnel /\ d.gone = c.gone
        /\ d.rest = c.rest /\ d.todo = c.todo /\ d.key = c.key /\ d.doomed = c.doomed
        /\ d.missing = c.missing
    BY <2>1 DEF Calls, Stages, Commands
  <2> HIDE DEF d
  <2>5. x \in CommandsOf(c.op)
    BY <1>1, <2>1, <2>2 DEF CommandsOf, ApplyCommands, RemoveCommands, AddressCommands
  <2>6. Family(d) = Family(c) /\ Wanted(d) = Wanted(c)
    BY <2>4 DEF Family, Wanted
  <2>7. Holds(d, router')
    BY <2>4 DEF Holds
  <2>8. OursOnly(d, router')
    BY <2>4, <2>6 DEF OursOnly
  <2>9. Staged(d, router')
    <3>1. x = "put-address" => d.doomed = {}
      BY <2>4 DEF x
    <3> QED
      BY <1>1, <2>1, <2>4, <2>5, <2>6, <2>8, <3>1 DEF Staged, Answered, OldCommands, NewCommands
  <2>10. ASSUME LoneApply(s) PROVE Addresses(d, router') /\ Devices(d, router')
    <3>1. Addresses(d, router')
      BY <2>1, <2>4, <2>6, <2>10 DEF Addresses, Reconciling, AddressCommands, PeerCommands,
                                     OldCommands, NewCommands
    <3>2. Devices(d, router')
      BY <2>1, <2>4, <2>10 DEF Devices, Reconciling, OldCommands, NewCommands
    <3> QED
      BY <3>1, <3>2
  <2>11. d.pc \in Commands /\ Same(s, d)
    BY <2>1, <2>4 DEF Commands, Same
  <2> QED
    BY <2>3, <2>4, <2>7, <2>9, <2>10, <2>11, RouterFine DEF CallInv
<1>3. ASSUME c.doomed = {}, c.missing = {}, LoneApply(s)
      PROVE  OurAddrs(router') \cap Family(c) = c.tunnel \cap Family(c)
  BY <1>3 DEF Reconciling, OurAddrs, Wanted
<1>4. CASE c.doomed = {} /\ c.missing = {} /\ c.family = "ip"
  <2>1. NextAddress(c) = ListsFamily(c, "ipv6")
    BY <1>4 DEF NextAddress
  <2>2. LoneApply(s) => router'.iface # {} /\ OurAddrs(router') \cap V4 = c.tunnel \cap V4
    BY <1>3, <1>4 DEF Reconciling, Family
  <2> QED
    BY <2>1, <2>2, ListsFamilyFine
<1>5. CASE c.doomed = {} /\ c.missing = {} /\ c.family = "ipv6"
  <2> DEFINE d == [c EXCEPT !.pc = "list-peers"]
  <2>1. NextAddress(c) = d
    BY <1>5 DEF NextAddress
  <2>2. /\ d \in Calls /\ d.pc = "list-peers" /\ d.family = c.family /\ d.found = c.found
        /\ d.op = c.op /\ d.peers = c.peers /\ d.tunnel = c.tunnel /\ d.gone = c.gone
        /\ d.rest = c.rest /\ d.todo = c.todo /\ d.key = c.key /\ d.doomed = c.doomed
        /\ d.missing = c.missing
    BY DEF Calls, Stages, Commands
  <2> HIDE DEF d
  <2>3. "list-peers" \in CommandsOf(c.op)
    BY <1>1 DEF CommandsOf, ApplyCommands, RemoveCommands, PeerCommands
  <2>4. Holds(d, router')
    BY <2>2 DEF Holds
  <2>5. Staged(d, router')
    BY <1>1, <2>2, <2>3 DEF Staged, Answered, OldCommands, NewCommands
  <2>6. ASSUME LoneApply(s) PROVE Addresses(d, router') /\ Devices(d, router')
    <3>1. /\ OurAddrs(router') \cap V4 = c.tunnel \cap V4
          /\ OurAddrs(router') \cap V6 = c.tunnel \cap V6
      BY <1>3, <1>5, <2>6 DEF Reconciling, Family
    <3>2. OurAddrs(router') \subseteq V4 \cup V6
      BY <1>1 DEF OurAddrs
    <3>3. OurAddrs(router') = c.tunnel
      BY <1>1, <3>1, <3>2
    <3>4. Addresses(d, router')
      BY <2>2, <3>3 DEF Addresses, AddressCommands
    <3>5. Devices(d, router')
      BY <2>2, <2>6 DEF Devices, Reconciling, OldCommands, NewCommands
    <3> QED
      BY <3>4, <3>5
  <2>7. d.pc \in Commands /\ Same(s, d)
    BY <2>2 DEF Commands, Same
  <2> QED
    BY <2>1, <2>2, <2>4, <2>5, <2>6, <2>7, RouterFine DEF CallInv
<1> QED
  BY <1>1, <1>2, <1>4, <1>5

---------------------------------------------------------------------------
\* The interface.

LEMMA RouterCall ==
  ASSUME IInv, NEW s \in Slots, call[s].pc \in Commands, kind = "mikrotik"
  PROVE  /\ s \in InFlight /\ call[s] \in Calls
         /\ Holds(call[s], router) /\ Staged(call[s], router)
         /\ call[s].op \in {"apply", "remove"}
         /\ LoneApply(s) => Addresses(call[s], router) /\ Devices(call[s], router)
BY Waiting, FlightFacts DEF CallInv, Progress, LoneApply

LEMMA HoldsStays ==
  ASSUME IInv, NEW s \in Slots, Evolves(s)
  PROVE  Holds(call[s], router') /\ Staged(call[s], router')
BY OtherCall DEF CallInv

LEMMA InterfaceKept ==
  ASSUME IInv, NEW s \in Slots, kind = "mikrotik", UNCHANGED host,
         \/ GetInterface(s) \/ PatchInterface(s) \/ PutInterface(s) \/ DeleteInterface(s)
  PROVE  Kept
<1>1. call[s].pc \in {"get-interface", "patch-interface", "put-interface", "delete-interface"}
  BY DEF GetInterface, PatchInterface, PutInterface, DeleteInterface, At
<1>2. /\ s \in InFlight /\ call[s] \in Calls
      /\ Holds(call[s], router) /\ Staged(call[s], router)
      /\ call[s].op \in {"apply", "remove"}
  BY <1>1, RouterCall DEF Commands
<1>3. Same(s, call[s])
  BY DEF Same
<1>4. CASE GetInterface(s)
  <2> DEFINE c == [call[s] EXCEPT !.found = router.iface]
             next == IF c.op = "remove"
                     THEN IF c.found = {} THEN Completed(c)
                          ELSE {[c EXCEPT !.pc = "delete-interface"]}
                     ELSE {[c EXCEPT !.pc = IF c.found = {} THEN "put-interface"
                                            ELSE "patch-interface"]}
  <2>1. UNCHANGED router /\ GoesOn(s, next)
    BY <1>4 DEF GetInterface
  <2>2. Evolves(s)
    BY <1>2, <2>1, RouterStays
  <2>3. Holds(call[s], router')
    BY <2>2, HoldsStays
  <2>4. c.op = call[s].op /\ c.found = router.iface
    BY <1>2 DEF Calls
  <2>5. ASSUME NEW x \in {"delete-interface", "put-interface", "patch-interface"},
               x \in CommandsOf(call[s].op), x = "patch-interface" => router.iface # {}
        PROVE  Fine(s, [c EXCEPT !.pc = x])
    <3> DEFINE d == [c EXCEPT !.pc = x]
    <3>1. /\ d \in Calls /\ d.pc = x /\ d.family = call[s].family /\ d.found = router.iface
          /\ d.op = call[s].op /\ d.peers = call[s].peers /\ d.tunnel = call[s].tunnel
          /\ d.gone = call[s].gone /\ d.rest = call[s].rest /\ d.todo = call[s].todo
          /\ d.key = call[s].key /\ d.doomed = call[s].doomed /\ d.missing = call[s].missing
      BY <1>2, <2>5, RouterFacts DEF Calls, Stages, Commands
    <3> HIDE DEF d
    <3>2. \A i \in router.iface : i <= router'.last
      BY <2>1, RouterFacts
    <3>3. Holds(d, router')
      BY <2>3, <3>1, <3>2 DEF Holds
    <3>4. Staged(d, router')
      BY <1>2, <2>5, <3>1 DEF Staged, Answered, OldCommands, NewCommands
    <3>5. Addresses(d, router') /\ Devices(d, router')
      BY <2>5, <3>1 DEF Addresses, Devices, AddressCommands, PeerCommands, OldCommands, NewCommands
    <3>6. d.pc \in Commands /\ Same(s, d)
      BY <2>5, <3>1 DEF Commands, Same
    <3>7. Fine(s, d)
      BY <1>2, <2>2, <3>1, <3>3, <3>4, <3>5, <3>6, RouterFine DEF CallInv
    <3> QED
      BY <3>7 DEF d
  <2>6. CASE call[s].op = "remove" /\ router.iface = {}
    <3>1. GoesOn(s, Completed(c))
      BY <2>1, <2>4, <2>6
    <3>2. \A d \in Completed(c) : Fine(s, d)
      BY <1>2, <2>2, <2>4, <2>6, CompletedFine
    <3> QED
      BY <1>2, <2>2, <3>1, <3>2, Moves
  <2>7. CASE call[s].op = "remove" /\ router.iface # {}
    <3>1. GoesOn(s, {[c EXCEPT !.pc = "delete-interface"]})
      BY <2>1, <2>4, <2>7
    <3>2. "delete-interface" \in CommandsOf(call[s].op)
      BY <2>7 DEF CommandsOf, RemoveCommands
    <3>3. Fine(s, [c EXCEPT !.pc = "delete-interface"])
      BY <2>5, <3>2
    <3> QED
      BY <1>2, <2>2, <3>1, <3>3, Moves
  <2>8. CASE call[s].op = "apply"
    <3> DEFINE x == IF router.iface = {} THEN "put-interface" ELSE "patch-interface"
    <3>1. GoesOn(s, {[c EXCEPT !.pc = x]})
      BY <2>1, <2>4, <2>8
    <3>2. x \in CommandsOf(call[s].op)
      BY <2>8 DEF CommandsOf, ApplyCommands
    <3>3. Fine(s, [c EXCEPT !.pc = x])
      BY <2>5, <3>2
    <3> DEFINE d == [c EXCEPT !.pc = x]
    <3> HIDE DEF d
    <3>4. GoesOn(s, {d}) /\ Fine(s, d)
      BY <3>1, <3>3 DEF d
    <3> QED
      BY <1>2, <2>2, <3>4, Moves
  <2> QED
    BY <1>2, <2>6, <2>7, <2>8
<1>5. CASE PatchInterface(s)
  <2>1. /\ UNCHANGED router /\ GoesOn(s, {ListsFamily(call[s], "ip")})
        /\ call[s].found = router.iface /\ call[s].pc = "patch-interface"
    BY <1>5 DEF PatchInterface, At
  <2>2. Evolves(s)
    BY <1>2, <2>1, RouterStays
  <2>3. router'.iface # {}
    BY <1>2, <2>1 DEF Staged
  <2>4. Fine(s, ListsFamily(call[s], "ip"))
    BY <1>2, <1>3, <2>2, <2>3, HoldsStays, ListsFamilyFine
  <2> QED
    BY <1>2, <2>1, <2>2, <2>4, Moves
<1>6. CASE PutInterface(s)
  <2>1. /\ call[s].pc = "put-interface" /\ router' \in Effects(call[s])
        /\ GoesOn(s, {ListsFamily(call[s], "ip")})
    BY <1>6 DEF PutInterface, At
  <2>2. router' = WithInterface
    BY <2>1 DEF Effects
  <2>3. Evolves(s) /\ router'.iface # {}
    BY <1>2, <2>2, InterfaceAdded
  <2>4. Fine(s, ListsFamily(call[s], "ip"))
    BY <1>2, <1>3, <2>3, HoldsStays, ListsFamilyFine
  <2> QED
    BY <1>2, <2>1, <2>3, <2>4, Moves
<1>7. CASE DeleteInterface(s)
  <2>1. /\ call[s].pc = "delete-interface" /\ router' \in Effects(call[s])
        /\ GoesOn(s, Completed(call[s]))
    BY <1>7 DEF DeleteInterface, At
  <2>2. router' = WithoutInterface(call[s].found)
    BY <2>1 DEF Effects
  <2>3. call[s].op = "remove"
    BY <1>2, <2>1 DEF Staged, Answered, CommandsOf, ApplyCommands, AddressCommands,
                      PeerCommands, OldCommands, NewCommands
  <2>4. Evolves(s)
    BY <1>2, <2>2, <2>3, InterfaceRemoved
  <2> QED
    BY <1>2, <2>1, <2>3, <2>4, CompletedFine, Moves
<1> QED
  BY <1>4, <1>5, <1>6, <1>7

---------------------------------------------------------------------------
\* The addresses.

LEMMA AddressesKept ==
  ASSUME IInv, NEW s \in Slots, kind = "mikrotik", UNCHANGED host,
         \/ GetAddresses(s) \/ DeleteAddress(s) \/ PutAddress(s)
  PROVE  Kept
<1>1. call[s].pc \in {"get-addresses", "delete-address", "put-address"}
  BY DEF GetAddresses, DeleteAddress, PutAddress, At
<1>2. /\ s \in InFlight /\ call[s] \in Calls
      /\ Holds(call[s], router) /\ Staged(call[s], router)
      /\ call[s].op \in {"apply", "remove"}
      /\ LoneApply(s) => Addresses(call[s], router) /\ Devices(call[s], router)
  BY <1>1, RouterCall DEF Commands
<1>3. LoneApply(s) => router.iface # {}
  BY <1>1, <1>2 DEF Devices, AddressCommands
<1>4. LoneApply(s) /\ call[s].family = "ipv6" => OurAddrs(router) \cap V4 = call[s].tunnel \cap V4
  BY <1>1, <1>2 DEF Addresses, AddressCommands
<1>5. V4 \cap V6 = {}
  BY CallAssumption
<1>6. CASE GetAddresses(s)
  <2> DEFINE c == [call[s] EXCEPT !.doomed = Stale(call[s]),
                                  !.missing = Wanted(call[s]) \ {a.addr : a \in Owned(call[s])}]
  <2>1. UNCHANGED router /\ GoesOn(s, {NextAddress(c)})
    BY <1>6 DEF GetAddresses
  <2>2. Evolves(s)
    BY <1>2, <2>1, RouterStays
  <2>3. Stale(call[s]) \in SUBSET Nat /\ \A i \in Stale(call[s]) : i <= router.last
    BY RouterFacts DEF Stale, Owned, IdsOf
  <2>4. /\ c \in Calls /\ c.pc = call[s].pc /\ c.family = call[s].family /\ c.found = call[s].found
        /\ c.op = call[s].op /\ c.peers = call[s].peers /\ c.tunnel = call[s].tunnel
        /\ c.gone = call[s].gone /\ c.rest = call[s].rest /\ c.todo = call[s].todo
        /\ c.key = call[s].key /\ c.doomed = Stale(call[s])
        /\ c.missing = Wanted(call[s]) \ {a.addr : a \in Owned(call[s])}
    BY <1>2, <2>3 DEF Calls, Wanted
  <2> HIDE DEF c
  <2>5. Family(c) = Family(call[s]) /\ Wanted(c) = Wanted(call[s])
    BY <2>4 DEF Family, Wanted
  <2>6. Holds(c, router')
    BY <1>2, <2>1, <2>3, <2>4 DEF Holds
  <2>7. OursOnly(c, router')
    <3> SUFFICES ASSUME NEW a \in router.addrs, a.id \in Stale(call[s])
                 PROVE  a.ours /\ a.addr \in Family(call[s]) /\ a.addr \notin call[s].tunnel
      BY <2>1, <2>4, <2>5 DEF OursOnly
    <3>1. PICK b \in Owned(call[s]) : b.addr \notin Wanted(call[s]) /\ b.id = a.id
      BY DEF Stale, IdsOf
    <3>2. b = a
      BY <3>1, RouterFacts DEF Distinct, Owned
    <3> QED
      BY <3>1, <3>2 DEF Owned, Wanted
  <2>8. ASSUME LoneApply(s) PROVE Reconciling(c)
    <3>1. ASSUME NEW a \in router.addrs, a.ours, a.addr \in Family(call[s])
          PROVE  a.addr \in call[s].tunnel \/ a.id \in Stale(call[s])
      BY <3>1 DEF Stale, Owned, IdsOf, Wanted
    <3>2. {a.addr : a \in Owned(call[s])} \subseteq OurAddrs(router)
      BY DEF Owned, OurAddrs
    <3> QED
      BY <1>3, <1>4, <2>1, <2>4, <2>5, <2>8, <3>1, <3>2 DEF Reconciling
  <2>9. Same(s, c) /\ c.missing \subseteq Wanted(c)
    BY <2>4, <2>5 DEF Same
  <2> QED
    BY <1>2, <2>1, <2>2, <2>4, <2>6, <2>7, <2>8, <2>9, NextAddressFine, Moves
<1>7. CASE DeleteAddress(s)
  <2>1. call[s].pc = "delete-address" /\ At(s, "delete-address")
    BY <1>7 DEF DeleteAddress, At
  <2>2. PICK i \in call[s].doomed :
          /\ router' = WithoutAddress(i)
          /\ GoesOn(s, {NextAddress([call[s] EXCEPT !.doomed = @ \ {i}])})
    BY <1>7 DEF DeleteAddress
  <2> DEFINE c == [call[s] EXCEPT !.doomed = @ \ {i}]
  <2>3. /\ Evolves(s) /\ router'.iface = router.iface
        /\ router'.addrs = {a \in router.addrs : a.id # i}
    BY <1>2, <2>1, <2>2, AddressRemoved
  <2>4. /\ c \in Calls /\ c.pc = call[s].pc /\ c.family = call[s].family /\ c.found = call[s].found
        /\ c.op = call[s].op /\ c.peers = call[s].peers /\ c.tunnel = call[s].tunnel
        /\ c.gone = call[s].gone /\ c.rest = call[s].rest /\ c.todo = call[s].todo
        /\ c.key = call[s].key /\ c.doomed = call[s].doomed \ {i} /\ c.missing = call[s].missing
    BY <1>2 DEF Calls
  <2>5. GoesOn(s, {NextAddress(c)})
    BY <2>2
  <2> HIDE DEF c
  <2>6. Family(c) = Family(call[s]) /\ Wanted(c) = Wanted(call[s])
    BY <2>4 DEF Family, Wanted
  <2>7. Holds(call[s], router')
    BY <2>3, HoldsStays
  <2>8. Holds(c, router')
    BY <2>4, <2>7 DEF Holds
  <2>9. OursOnly(call[s], router) /\ call[s].missing \subseteq Wanted(call[s])
    BY <1>2, <2>1 DEF Staged
  <2>10. OursOnly(c, router')
    BY <2>3, <2>4, <2>6, <2>9 DEF OursOnly
  <2>11. ASSUME LoneApply(s) PROVE Reconciling(c)
    <3>1. /\ \A a \in router.addrs : a.ours /\ a.addr \in Family(call[s])
                => a.addr \in call[s].tunnel \/ a.id \in call[s].doomed
          /\ Wanted(call[s]) \subseteq OurAddrs(router) \cup call[s].missing
      BY <1>2, <2>1, <2>11 DEF Addresses
    <3>2. \A a \in router'.addrs : a.ours /\ a.addr \in Family(c)
                => a.addr \in c.tunnel \/ a.id \in c.doomed
      BY <2>3, <2>4, <2>6, <3>1
    <3>3. \A x \in OurAddrs(router) : x \in OurAddrs(router')
                                      \/ (x \in Family(call[s]) /\ x \notin call[s].tunnel)
      <4> TAKE x \in OurAddrs(router)
      <4>1. PICK a \in router.addrs : a.ours /\ a.addr = x
        BY DEF OurAddrs
      <4>2. CASE a.id = i
        BY <2>9, <4>1, <4>2 DEF OursOnly
      <4>3. CASE a.id # i
        BY <2>3, <4>1, <4>3 DEF OurAddrs
      <4> QED
        BY <4>2, <4>3
    <3>4. Wanted(c) \subseteq OurAddrs(router') \cup c.missing
      BY <2>4, <2>6, <3>1, <3>3 DEF Wanted
    <3>5. OurAddrs(router') \subseteq OurAddrs(router)
      BY <2>3 DEF OurAddrs
    <3>6. c.family = "ipv6" => OurAddrs(router') \cap V4 = c.tunnel \cap V4
      BY <1>4, <1>5, <2>4, <2>11, <3>3, <3>5 DEF Family
    <3> QED
      BY <1>3, <2>3, <2>11, <3>2, <3>4, <3>6 DEF Reconciling
  <2>12. Same(s, c) /\ c.missing \subseteq Wanted(c)
    BY <2>4, <2>6, <2>9 DEF Same
  <2> QED
    BY <1>2, <2>3, <2>4, <2>5, <2>8, <2>10, <2>11, <2>12, NextAddressFine, Moves
<1>8. CASE PutAddress(s)
  <2>1. call[s].pc = "put-address"
    BY <1>8 DEF PutAddress, At
  <2>2. PICK x \in call[s].missing :
          /\ router' = WithAddress(x)
          /\ GoesOn(s, {NextAddress([call[s] EXCEPT !.missing = @ \ {x}])})
    BY <1>8 DEF PutAddress
  <2> DEFINE c == [call[s] EXCEPT !.missing = @ \ {x}]
             new == [id |-> router.last + 1, addr |-> x, ours |-> TRUE]
  <2>3. x \in Wanted(call[s]) /\ call[s].missing \subseteq Wanted(call[s])
    BY <1>2, <2>1, <2>2 DEF Staged
  <2>4. x \in call[s].tunnel /\ x \in Family(call[s]) /\ x \in V4 \cup V6
    BY <1>2, <2>3 DEF Wanted, Calls
  <2>5. /\ Evolves(s) /\ router'.iface = router.iface
        /\ router'.addrs = router.addrs \cup {new}
    BY <1>2, <2>2, <2>4, AddressAdded
  <2>6. /\ c \in Calls /\ c.pc = call[s].pc /\ c.family = call[s].family /\ c.found = call[s].found
        /\ c.op = call[s].op /\ c.peers = call[s].peers /\ c.tunnel = call[s].tunnel
        /\ c.gone = call[s].gone /\ c.rest = call[s].rest /\ c.todo = call[s].todo
        /\ c.key = call[s].key /\ c.doomed = call[s].doomed /\ c.missing = call[s].missing \ {x}
    BY <1>2 DEF Calls
  <2>7. GoesOn(s, {NextAddress(c)})
    BY <2>2
  <2>8. new.addr = x /\ new.ours /\ new.id = router.last + 1
    OBVIOUS
  <2> HIDE DEF c, new
  <2>9. Family(c) = Family(call[s]) /\ Wanted(c) = Wanted(call[s])
    BY <2>6 DEF Family, Wanted
  <2>10. Holds(c, router')
    <3>1. Holds(call[s], router')
      BY <2>5, HoldsStays
    <3> QED
      BY <2>6, <3>1 DEF Holds
  <2>11. OurAddrs(router') = OurAddrs(router) \cup {x}
    BY <2>5, <2>8 DEF OurAddrs
  <2>12. call[s].doomed = {}
    BY <1>2, <2>1 DEF Staged
  <2>13. OursOnly(c, router')
    BY <2>6, <2>12 DEF OursOnly
  <2>14. ASSUME LoneApply(s) PROVE Reconciling(c)
    <3>1. /\ \A a \in router.addrs : a.ours /\ a.addr \in Family(call[s])
                => a.addr \in call[s].tunnel \/ a.id \in call[s].doomed
          /\ Wanted(call[s]) \subseteq OurAddrs(router) \cup call[s].missing
      BY <1>2, <2>1, <2>14 DEF Addresses
    <3>2. \A a \in router'.addrs : a.ours /\ a.addr \in Family(c)
                => a.addr \in c.tunnel \/ a.id \in c.doomed
      BY <2>4, <2>5, <2>6, <2>8, <2>9, <3>1
    <3>3. Wanted(c) \subseteq OurAddrs(router') \cup c.missing
      BY <2>6, <2>9, <2>11, <3>1
    <3>4. c.family = "ipv6" => OurAddrs(router') \cap V4 = c.tunnel \cap V4
      BY <1>4, <1>5, <2>4, <2>6, <2>11, <2>14 DEF Family
    <3> QED
      BY <1>3, <2>5, <2>14, <3>2, <3>3, <3>4 DEF Reconciling
  <2>15. Same(s, c) /\ c.missing \subseteq Wanted(c)
    BY <2>3, <2>6, <2>9 DEF Same
  <2> QED
    BY <1>2, <2>5, <2>6, <2>7, <2>10, <2>13, <2>14, <2>15, NextAddressFine, Moves
<1> QED
  BY <1>6, <1>7, <1>8

---------------------------------------------------------------------------
\* The devices.

\* What a command on a device may still do, once the addresses are in place.
LEMMA AddressedStays ==
  ASSUME IInv, NEW s \in Slots, kind = "mikrotik", call[s].pc \in PeerCommands, LoneApply(s),
         router'.iface = router.iface, router'.addrs = router.addrs
  PROVE  Addressed(s)
<1>1. call[s].pc \in Commands
  BY DEF Commands, PeerCommands, OldCommands, NewCommands
<1>2. Addresses(call[s], router) /\ Devices(call[s], router)
  BY <1>1, RouterCall
<1>3. OurAddrs(router) = call[s].tunnel /\ router.iface # {}
  BY <1>2 DEF Addresses, Devices
<1> QED
  BY <1>3 DEF Addressed, OurAddrs

LEMMA ListPeersKept ==
  ASSUME IInv, NEW s \in Slots, kind = "mikrotik", UNCHANGED host, ListPeers(s)
  PROVE  Kept
<1>1. call[s].pc = "list-peers" /\ UNCHANGED router
  BY DEF ListPeers, At
<1>2. /\ s \in InFlight /\ call[s] \in Calls
      /\ Holds(call[s], router) /\ Staged(call[s], router)
      /\ call[s].op \in {"apply", "remove"}
  BY <1>1, RouterCall DEF Commands
<1> DEFINE c == [call[s] EXCEPT !.todo = Unwanted(call[s]), !.rest = call[s].peers]
<1>3. GoesOn(s, NextPeer(c))
  BY DEF ListPeers
<1>4. Evolves(s)
  BY <1>1, <1>2, RouterStays
<1>5. /\ Unwanted(call[s]) \subseteq router.peers
      /\ \A p \in router.peers : p.key \notin call[s].peers => p \in Unwanted(call[s])
      /\ \A p \in Unwanted(call[s]) : p.key \notin call[s].peers
  BY <1>2 DEF Unwanted, Holds
<1>6. /\ c \in Calls /\ c.family = call[s].family /\ c.found = call[s].found
      /\ c.op = call[s].op /\ c.peers = call[s].peers /\ c.tunnel = call[s].tunnel
      /\ c.gone = call[s].gone /\ c.rest = call[s].peers /\ c.todo = Unwanted(call[s])
      /\ c.key = call[s].key /\ c.doomed = call[s].doomed /\ c.missing = call[s].missing
  BY <1>2, <1>5, RouterFacts DEF Calls
<1> HIDE DEF c
<1>7. IsFiniteSet(c.todo)
  BY <1>5, <1>6, RouterFacts, FS_Subset
<1>8. \A i \in IdsOf(c.todo) : i <= router'.last
  BY <1>1, <1>5, <1>6, RouterFacts DEF IdsOf
<1>9. Holds(c, router')
  BY <1>1, <1>2, <1>6, <1>7, <1>8 DEF Holds
<1>10. ASSUME NEW k \in Keys \ c.peers
       PROVE  Cardinality(Entries(router'.peers, k)) <= Cardinality(Entries(c.todo, k))
  <2>1. Entries(router'.peers, k) = Entries(c.todo, k)
    BY <1>1, <1>5, <1>6 DEF Entries
  <2>2. Cardinality(Entries(c.todo, k)) \in Nat
    BY <1>7, EntriesCount
  <2> QED
    BY <2>1, <2>2
<1>11. LoneApply(s) => Addressed(s)
  BY <1>1, AddressedStays DEF PeerCommands
<1>12. Same(s, c) /\ \A e \in c.todo : e.key \notin c.peers
  BY <1>5, <1>6 DEF Same
<1>13. c.peers \subseteq c.rest \cup KeysOf(router'.peers)
  BY <1>6
<1>14. \A d \in NextPeer(c) : Fine(s, d)
  BY <1>2, <1>4, <1>6, <1>9, <1>10, <1>11, <1>12, <1>13, NextPeerFine
<1> QED
  BY <1>2, <1>3, <1>4, <1>14, Moves

\* The entry found next is one of those that match.
LEMMA FoundFine ==
  ASSUME IInv, NEW s \in Slots, kind = "mikrotik", UNCHANGED <<router, host>>,
         \/ call[s].pc = "find-old" /\ call[s].op \in {"apply", "remove"}
         \/ call[s].pc = "find-new",
         NEW p \in Matches(call[s])
  PROVE  Fine(s, [call[s] EXCEPT
                    !.found = {p.id},
                    !.pc = IF call[s].pc = "find-old" THEN "delete-peer" ELSE "patch-peer"])
<1> DEFINE x == IF call[s].pc = "find-old" THEN "delete-peer" ELSE "patch-peer"
           d == [call[s] EXCEPT !.found = {p.id}, !.pc = x]
<1>1. /\ s \in InFlight /\ call[s] \in Calls
      /\ Holds(call[s], router) /\ Staged(call[s], router)
      /\ call[s].op \in {"apply", "remove"}
      /\ LoneApply(s) => Addresses(call[s], router) /\ Devices(call[s], router)
  BY RouterCall DEF Commands
<1>2. Evolves(s)
  BY <1>1, RouterStays
<1>3. p \in router.peers /\ p.key \in call[s].key /\ p.id \in Nat /\ p.id <= router.last
  BY RouterFacts DEF Matches, IdsOf
<1>4. /\ x \in {"delete-peer", "patch-peer"}
      /\ x \in OldCommands <=> call[s].pc \in OldCommands
      /\ x \in NewCommands <=> call[s].pc \in NewCommands
  BY DEF OldCommands, NewCommands
<1>5. x \in CommandsOf(call[s].op)
  BY <1>1, <1>4 DEF Staged, Answered, CommandsOf, ApplyCommands, RemoveCommands, PeerCommands,
                    OldCommands, NewCommands
<1> HIDE DEF x
<1>6. /\ d \in Calls /\ d.pc = x /\ d.family = call[s].family /\ d.found = {p.id}
      /\ d.op = call[s].op /\ d.peers = call[s].peers /\ d.tunnel = call[s].tunnel
      /\ d.gone = call[s].gone /\ d.rest = call[s].rest /\ d.todo = call[s].todo
      /\ d.key = call[s].key /\ d.doomed = call[s].doomed /\ d.missing = call[s].missing
  BY <1>1, <1>3, <1>4 DEF Calls, Stages, Commands
<1> HIDE DEF d
<1>7. Holds(d, router')
  BY <1>1, <1>3, <1>6 DEF Holds
<1>8. Staged(d, router')
  <2>1. \A q \in router.peers : q.id = p.id => q = p
    BY <1>3, RouterFacts DEF Distinct
  <2>2. x \notin Answered \cup {"idle"}
    BY <1>4 DEF Answered
  <2> QED
    BY <1>1, <1>3, <1>4, <1>5, <1>6, <2>1, <2>2 DEF Staged
<1>9. ASSUME LoneApply(s) PROVE Addresses(d, router') /\ Devices(d, router')
  <2>1. call[s].pc \in PeerCommands /\ x \in PeerCommands
    BY <1>4 DEF PeerCommands, OldCommands, NewCommands
  <2>2. x \notin AddressCommands
    BY <1>4 DEF AddressCommands
  <2>3. Addresses(d, router')
    BY <1>1, <1>4, <1>6, <1>9, <2>1, <2>2 DEF Addresses
  <2>4. Devices(d, router')
    BY <1>1, <1>3, <1>4, <1>6, <1>9, <2>1 DEF Devices
  <2> QED
    BY <2>3, <2>4
<1>10. d.pc \in Commands /\ Same(s, d)
  BY <1>4, <1>6 DEF Commands, Same
<1>11. Fine(s, d)
  BY <1>1, <1>2, <1>6, <1>7, <1>8, <1>9, <1>10, RouterFine DEF CallInv
<1> QED
  BY <1>11 DEF d, x

LEMMA RemoveNextPeer ==
  ASSUME IInv, NEW s \in Slots, s \in InFlight, kind = "mikrotik", Evolves(s),
         call[s].op = "remove"
  PROVE  \A d \in NextPeer(call[s]) : Fine(s, d)
<1>1. call[s] \in Calls /\ Holds(call[s], router') /\ Same(s, call[s])
  BY FlightFacts, HoldsStays DEF Same
<1>2. call[s].peers = {} /\ ~LoneApply(s)
  BY <1>1 DEF Holds, LoneApply
<1> QED
  BY <1>1, <1>2, NextPeerFine

LEMMA FailsFine ==
  ASSUME IInv, NEW s \in Slots, s \in InFlight, kind = "mikrotik", Evolves(s)
  PROVE  Fine(s, Answer("failed"))
BY RouterKeeps, FailedFine

\* Whatever a call that failed did, and wherever its error leads.
LEMMA AfterErrorFine ==
  ASSUME IInv, NEW s \in Slots, s \in InFlight, kind = "mikrotik", Evolves(s)
  PROVE  \A d \in AfterError(call[s]) : Fine(s, d)
<1>1. /\ call[s] \in Calls /\ call[s].op \in {"apply", "remove"}
      /\ Holds(call[s], router') /\ Staged(call[s], router')
  BY FlightFacts, HoldsStays
<1>2. CASE \/ call[s].op = "apply"
           \/ call[s].pc \in {"list-peers", "get-interface", "delete-interface"}
  <2>1. AfterError(call[s]) = {Answer("failed")}
    BY <1>2 DEF AfterError
  <2> QED
    BY <2>1, FailsFine
<1>3. CASE call[s].op = "remove" /\ call[s].pc \in {"get-addresses", "delete-address"}
  <2> DEFINE d == [call[s] EXCEPT !.pc = "list-peers"]
  <2>1. AfterError(call[s]) = {d}
    BY <1>3 DEF AfterError
  <2>2. /\ d \in Calls /\ d.pc = "list-peers" /\ d.family = call[s].family
        /\ d.op = call[s].op /\ d.peers = call[s].peers /\ d.tunnel = call[s].tunnel
        /\ d.gone = call[s].gone /\ d.rest = call[s].rest /\ d.todo = call[s].todo
        /\ d.key = call[s].key /\ d.doomed = call[s].doomed /\ d.missing = call[s].missing
        /\ d.found = call[s].found
    BY <1>1 DEF Calls, Stages, Commands
  <2> HIDE DEF d
  <2>3. "list-peers" \in CommandsOf(call[s].op)
    BY <1>3 DEF CommandsOf, RemoveCommands
  <2>4. Holds(d, router')
    BY <1>1, <2>2 DEF Holds
  <2>5. Staged(d, router')
    BY <1>3, <2>2, <2>3 DEF Staged, Answered, OldCommands, NewCommands
  <2>6. d.pc \in Commands /\ Same(s, d) /\ ~LoneApply(s)
    BY <1>3, <2>2 DEF Commands, Same, LoneApply
  <2> QED
    BY <2>1, <2>2, <2>4, <2>5, <2>6, RouterFine DEF CallInv
<1>4. CASE /\ call[s].op = "remove"
           /\ call[s].pc \notin {"list-peers", "get-interface", "delete-interface",
                                 "get-addresses", "delete-address"}
  <2>1. AfterError(call[s]) = NextPeer(call[s])
    BY <1>4 DEF AfterError
  <2> QED
    BY <1>4, <2>1, RemoveNextPeer
<1> QED
  BY <1>1, <1>2, <1>3, <1>4

LEMMA EffectsEvolve ==
  ASSUME IInv, NEW s \in Slots, s \in InFlight, kind = "mikrotik", UNCHANGED host,
         router' \in {router} \cup Effects(call[s])
  PROVE  Evolves(s)
<1>1. call[s] \in Calls /\ Staged(call[s], router)
  BY FlightFacts DEF CallInv
<1>2. CASE router' = router
  BY <1>2, RouterStays
<1>3. CASE router' \in Effects(call[s]) /\ call[s].pc = "put-interface"
  <2>1. router' = WithInterface
    BY <1>3 DEF Effects
  <2> QED
    BY <2>1, InterfaceAdded
<1>4. CASE router' \in Effects(call[s]) /\ call[s].pc = "delete-address"
  <2>1. PICK i \in call[s].doomed : router' = WithoutAddress(i)
    BY <1>4 DEF Effects
  <2> QED
    BY <1>4, <2>1, AddressRemoved DEF At
<1>5. CASE router' \in Effects(call[s]) /\ call[s].pc = "put-address"
  <2>1. PICK a \in call[s].missing : router' = WithAddress(a)
    BY <1>5 DEF Effects
  <2>2. a \in V4 \cup V6
    BY <1>1 DEF Calls
  <2> QED
    BY <2>1, <2>2, AddressAdded
<1>6. CASE router' \in Effects(call[s]) /\ call[s].pc = "put-peer"
  <2>1. PICK k \in call[s].key : router' = WithPeer(k)
    BY <1>6 DEF Effects
  <2>2. k \in call[s].peers
    BY <1>1, <1>6 DEF Staged, NewCommands
  <2> QED
    BY <2>1, <2>2, PeerAdded
<1>7. CASE router' \in Effects(call[s]) /\ call[s].pc = "delete-peer"
  <2>1. router' = WithoutPeers(call[s].found)
    BY <1>7 DEF Effects
  <2> QED
    BY <1>7, <2>1, PeersRemoved DEF At
<1>8. CASE router' \in Effects(call[s]) /\ call[s].pc = "delete-interface"
  <2>1. router' = WithoutInterface(call[s].found)
    BY <1>8 DEF Effects
  <2>2. call[s].op = "remove"
    BY <1>1, <1>8, FlightFacts DEF Staged, Answered, CommandsOf, ApplyCommands, AddressCommands,
                      PeerCommands, OldCommands, NewCommands
  <2> QED
    BY <2>1, <2>2, InterfaceRemoved
<1>9. CASE /\ router' \in Effects(call[s])
           /\ call[s].pc \notin {"put-interface", "delete-address", "put-address", "put-peer",
                                 "delete-peer", "delete-interface"}
  <2>1. Effects(call[s]) = {}
    BY <1>9 DEF Effects
  <2> QED
    BY <1>9, <2>1
<1> QED
  BY <1>2, <1>3, <1>4, <1>5, <1>6, <1>7, <1>8, <1>9

LEMMA CallFailsKept ==
  ASSUME IInv, NEW s \in Slots, kind = "mikrotik", UNCHANGED host, CallFails(s)
  PROVE  Kept
BY EffectsEvolve, AfterErrorFine, Moves DEF CallFails

LEMMA FindOldKept ==
  ASSUME IInv, NEW s \in Slots, kind = "mikrotik", UNCHANGED host, FindOld(s)
  PROVE  Kept
<1>1. call[s].pc = "find-old" /\ UNCHANGED router
  BY DEF FindOld, At
<1>2. s \in InFlight /\ call[s].op \in {"apply", "remove"}
  BY <1>1, RouterCall DEF Commands
<1>3. Evolves(s)
  BY <1>1, <1>2, RouterStays
<1>4. CASE Matches(call[s]) = {}
  <2>1. GoesOn(s, AfterError(call[s]))
    BY <1>4 DEF FindOld
  <2> QED
    BY <1>2, <1>3, <2>1, AfterErrorFine, Moves
<1>5. CASE Matches(call[s]) # {}
  <2> DEFINE next == {[call[s] EXCEPT !.found = {p.id}, !.pc = "delete-peer"] :
                        p \in Matches(call[s])}
  <2>1. GoesOn(s, next)
    BY <1>5 DEF FindOld
  <2>2. \A p \in Matches(call[s]) :
          Fine(s, [call[s] EXCEPT !.found = {p.id}, !.pc = "delete-peer"])
    BY <1>1, <1>2, FoundFine
  <2>3. \A d \in next : Fine(s, d)
    BY <2>2
  <2> QED
    BY <1>2, <1>3, <2>1, <2>3, Moves
<1> QED
  BY <1>4, <1>5

LEMMA FindNewKept ==
  ASSUME IInv, NEW s \in Slots, kind = "mikrotik", UNCHANGED host, FindNew(s)
  PROVE  Kept
<1>1. call[s].pc = "find-new" /\ UNCHANGED router
  BY DEF FindNew, At
<1>2. /\ s \in InFlight /\ call[s] \in Calls
      /\ Holds(call[s], router) /\ Staged(call[s], router)
      /\ call[s].op \in {"apply", "remove"}
      /\ LoneApply(s) => Addresses(call[s], router) /\ Devices(call[s], router)
  BY <1>1, RouterCall DEF Commands
<1>3. Evolves(s)
  BY <1>1, <1>2, RouterStays
<1>4. CASE Matches(call[s]) = {}
  <2> DEFINE d == [call[s] EXCEPT !.pc = "put-peer"]
  <2>1. GoesOn(s, {d})
    BY <1>4 DEF FindNew
  <2>2. /\ d \in Calls /\ d.pc = "put-peer" /\ d.family = call[s].family
        /\ d.op = call[s].op /\ d.peers = call[s].peers /\ d.tunnel = call[s].tunnel
        /\ d.gone = call[s].gone /\ d.rest = call[s].rest /\ d.todo = call[s].todo
        /\ d.key = call[s].key /\ d.doomed = call[s].doomed /\ d.missing = call[s].missing
        /\ d.found = call[s].found
    BY <1>2 DEF Calls, Stages, Commands
  <2> HIDE DEF d
  <2>3. "put-peer" \in CommandsOf(call[s].op)
    BY <1>1, <1>2 DEF Staged, Answered, CommandsOf, ApplyCommands, RemoveCommands, PeerCommands,
                      OldCommands, NewCommands
  <2>4. Holds(d, router')
    BY <1>1, <1>2, <2>2 DEF Holds
  <2>5. Staged(d, router')
    BY <1>1, <1>2, <2>2, <2>3 DEF Staged, Answered, OldCommands, NewCommands
  <2>6. ASSUME LoneApply(s) PROVE Addresses(d, router') /\ Devices(d, router')
    <3>1. /\ OurAddrs(router) = call[s].tunnel /\ router.iface # {}
          /\ call[s].peers \subseteq call[s].rest \cup KeysOf(router.peers) \cup call[s].key
          /\ \A k \in Keys \ call[s].peers :
               Cardinality(Entries(router.peers, k)) <= Cardinality(Entries(call[s].todo, k)) + 0
      BY <1>1, <1>2, <2>6 DEF Addresses, Devices, PeerCommands, OldCommands, NewCommands
    <3>2. Addresses(d, router')
      BY <1>1, <2>2, <3>1 DEF Addresses, AddressCommands
    <3>3. Devices(d, router')
      BY <1>1, <2>2, <3>1 DEF Devices, OldCommands, NewCommands
    <3> QED
      BY <3>2, <3>3
  <2>7. d.pc \in Commands /\ Same(s, d)
    BY <2>2 DEF Commands, Same
  <2>8. Fine(s, d)
    BY <1>2, <1>3, <2>2, <2>4, <2>5, <2>6, <2>7, RouterFine DEF CallInv
  <2> QED
    BY <1>2, <1>3, <2>1, <2>8, Moves
<1>5. CASE Matches(call[s]) # {}
  <2> DEFINE next == {[call[s] EXCEPT !.found = {p.id}, !.pc = "patch-peer"] :
                        p \in Matches(call[s])}
  <2>1. GoesOn(s, next)
    BY <1>5 DEF FindNew
  <2>2. \A p \in Matches(call[s]) :
          Fine(s, [call[s] EXCEPT !.found = {p.id}, !.pc = "patch-peer"])
    BY <1>1, FoundFine
  <2>3. \A d \in next : Fine(s, d)
    BY <2>2
  <2> QED
    BY <1>2, <1>3, <2>1, <2>3, Moves
<1> QED
  BY <1>4, <1>5

LEMMA DeletePeerKept ==
  ASSUME IInv, NEW s \in Slots, kind = "mikrotik", UNCHANGED host, DeletePeer(s)
  PROVE  Kept
<1>1. call[s].pc = "delete-peer" /\ At(s, "delete-peer")
  BY DEF DeletePeer, At
<1>2. /\ s \in InFlight /\ call[s] \in Calls
      /\ Holds(call[s], router) /\ Staged(call[s], router)
      /\ call[s].op \in {"apply", "remove"}
      /\ LoneApply(s) => Addresses(call[s], router) /\ Devices(call[s], router)
  BY <1>1, RouterCall DEF Commands
<1>3. router' = WithoutPeers(call[s].found) /\ GoesOn(s, NextPeer(call[s]))
  BY <1>1 DEF DeletePeer, Effects
<1>4. /\ Evolves(s)
      /\ router'.iface = router.iface /\ router'.addrs = router.addrs
      /\ router'.peers = {p \in router.peers : p.id \notin call[s].found}
  BY <1>1, <1>2, <1>3, PeersRemoved
<1>5. /\ \A e \in call[s].todo : e.key \notin call[s].peers
      /\ call[s].key \cap call[s].peers = {}
      /\ \A p \in router.peers : p.id \in call[s].found => p.key \in call[s].key
      /\ \A k, l \in call[s].key : k = l
  BY <1>1, <1>2 DEF Staged, Holds, OldCommands
<1>6. ASSUME LoneApply(s)
      PROVE  /\ call[s].peers \subseteq call[s].rest \cup KeysOf(router'.peers)
             /\ \A k \in Keys \ call[s].peers :
                  Cardinality(Entries(router'.peers, k)) <= Cardinality(Entries(call[s].todo, k))
  <2>1. /\ call[s].peers \subseteq call[s].rest \cup KeysOf(router.peers)
        /\ \A k \in Keys \ call[s].peers :
             Cardinality(Entries(router.peers, k))
               <= Cardinality(Entries(call[s].todo, k)) + (IF k \in call[s].key THEN 1 ELSE 0)
        /\ \E p \in router.peers : call[s].found = {p.id}
    BY <1>1, <1>2, <1>6 DEF Devices, OldCommands, NewCommands
  <2>2. PICK p \in router.peers : call[s].found = {p.id}
    BY <2>1
  <2>3. router'.peers = router.peers \ {p}
    BY <1>4, <2>2, RouterFacts DEF Distinct
  <2>4. p.key \in call[s].key
    BY <1>5, <2>2
  <2>5. call[s].peers \subseteq call[s].rest \cup KeysOf(router'.peers)
    BY <1>5, <2>1, <2>3, <2>4 DEF KeysOf
  <2>6. ASSUME NEW k \in Keys \ call[s].peers
        PROVE  Cardinality(Entries(router'.peers, k)) <= Cardinality(Entries(call[s].todo, k))
    <3>1. Cardinality(Entries(router.peers, k))
            = Cardinality(Entries(router'.peers, k)) + (IF p.key = k THEN 1 ELSE 0)
      BY <2>3, RouterFacts, EntriesLess
    <3>2. (k \in call[s].key) <=> (p.key = k)
      BY <1>5, <2>4
    <3>3. Cardinality(Entries(router'.peers, k)) \in Nat
      BY <1>4, EntriesCount DEF Evolves
    <3>4. Cardinality(Entries(call[s].todo, k)) \in Nat
      BY <1>2, EntriesCount DEF Holds
    <3> QED
      BY <2>1, <3>1, <3>2, <3>3, <3>4
  <2> QED
    BY <2>5, <2>6
<1>7. LoneApply(s) => Addressed(s)
  BY <1>1, <1>4, AddressedStays DEF PeerCommands, OldCommands
<1>8. Holds(call[s], router') /\ Same(s, call[s])
  BY <1>4, HoldsStays DEF Same
<1>9. \A d \in NextPeer(call[s]) : Fine(s, d)
  BY <1>2, <1>4, <1>5, <1>6, <1>7, <1>8, NextPeerFine
<1> QED
  BY <1>2, <1>3, <1>4, <1>9, Moves

LEMMA PatchPeerKept ==
  ASSUME IInv, NEW s \in Slots, kind = "mikrotik", UNCHANGED host, PatchPeer(s)
  PROVE  Kept
<1>1. call[s].pc = "patch-peer" /\ UNCHANGED router /\ GoesOn(s, NextPeer(call[s]))
  BY DEF PatchPeer, At
<1>2. /\ s \in InFlight /\ call[s] \in Calls
      /\ Holds(call[s], router) /\ Staged(call[s], router)
      /\ LoneApply(s) => Addresses(call[s], router) /\ Devices(call[s], router)
  BY <1>1, RouterCall DEF Commands
<1>3. Evolves(s)
  BY <1>1, <1>2, RouterStays
<1>4. call[s].todo = {} /\ \A p \in router.peers : p.id \in call[s].found => p.key \in call[s].key
  BY <1>1, <1>2 DEF Staged, NewCommands
<1>5. ASSUME LoneApply(s)
      PROVE  /\ call[s].peers \subseteq call[s].rest \cup KeysOf(router'.peers)
             /\ \A k \in Keys \ call[s].peers :
                  Cardinality(Entries(router'.peers, k)) <= Cardinality(Entries(call[s].todo, k))
  <2>1. /\ call[s].peers \subseteq call[s].rest \cup KeysOf(router.peers) \cup call[s].key
        /\ \A k \in Keys \ call[s].peers :
             Cardinality(Entries(router.peers, k)) <= Cardinality(Entries(call[s].todo, k)) + 0
        /\ \E p \in router.peers : call[s].found = {p.id}
    BY <1>1, <1>2, <1>5 DEF Devices, OldCommands, NewCommands
  <2>2. PICK p \in router.peers : call[s].found = {p.id}
    BY <2>1
  <2>3. call[s].key \subseteq KeysOf(router.peers)
    BY <1>2, <1>4, <2>2 DEF Holds, KeysOf
  <2>4. call[s].peers \subseteq call[s].rest \cup KeysOf(router'.peers)
    BY <1>1, <2>1, <2>3
  <2>5. ASSUME NEW k \in Keys \ call[s].peers
        PROVE  Cardinality(Entries(router'.peers, k)) <= Cardinality(Entries(call[s].todo, k))
    <3>1. Cardinality(Entries(router.peers, k)) <= Cardinality(Entries(call[s].todo, k)) + 0
      BY <2>1
    <3>2. Cardinality(Entries(call[s].todo, k)) \in Nat
      BY <1>2, EntriesCount DEF Holds
    <3> QED
      BY <1>1, <3>1, <3>2
  <2> QED
    BY <2>4, <2>5
<1>6. LoneApply(s) => Addressed(s)
  BY <1>1, AddressedStays DEF PeerCommands, NewCommands
<1>7. Holds(call[s], router') /\ Same(s, call[s])
  BY <1>3, HoldsStays DEF Same
<1>8. \A e \in call[s].todo : e.key \notin call[s].peers
  BY <1>4
<1>9. \A d \in NextPeer(call[s]) : Fine(s, d)
  BY <1>2, <1>3, <1>5, <1>6, <1>7, <1>8, NextPeerFine
<1> QED
  BY <1>1, <1>2, <1>3, <1>9, Moves

LEMMA PutPeerKept ==
  ASSUME IInv, NEW s \in Slots, kind = "mikrotik", UNCHANGED host, PutPeer(s)
  PROVE  Kept
<1>1. call[s].pc = "put-peer" /\ router' \in Effects(call[s]) /\ GoesOn(s, NextPeer(call[s]))
  BY DEF PutPeer, At
<1>2. /\ s \in InFlight /\ call[s] \in Calls
      /\ Holds(call[s], router) /\ Staged(call[s], router)
      /\ LoneApply(s) => Addresses(call[s], router) /\ Devices(call[s], router)
  BY <1>1, RouterCall DEF Commands
<1>3. PICK x \in call[s].key : router' = WithPeer(x)
  BY <1>1 DEF Effects
<1>4. call[s].todo = {} /\ x \in call[s].peers /\ call[s].key = {x}
  BY <1>1, <1>2, <1>3 DEF Staged, Holds, NewCommands
<1> DEFINE new == [id |-> router.last + 1, key |-> x]
<1>5. /\ Evolves(s)
      /\ router'.iface = router.iface /\ router'.addrs = router.addrs
      /\ router'.peers = router.peers \cup {new}
  BY <1>2, <1>3, <1>4, PeerAdded
<1>6. new.key = x
  OBVIOUS
<1> HIDE DEF new
<1>7. ASSUME LoneApply(s)
      PROVE  /\ call[s].peers \subseteq call[s].rest \cup KeysOf(router'.peers)
             /\ \A k \in Keys \ call[s].peers :
                  Cardinality(Entries(router'.peers, k)) <= Cardinality(Entries(call[s].todo, k))
  <2>1. /\ call[s].peers \subseteq call[s].rest \cup KeysOf(router.peers) \cup call[s].key
        /\ \A k \in Keys \ call[s].peers :
             Cardinality(Entries(router.peers, k)) <= Cardinality(Entries(call[s].todo, k)) + 0
    BY <1>1, <1>2, <1>7 DEF Devices, OldCommands, NewCommands
  <2>2. KeysOf(router'.peers) = KeysOf(router.peers) \cup {x}
    BY <1>5, <1>6 DEF KeysOf
  <2>3. call[s].peers \subseteq call[s].rest \cup KeysOf(router'.peers)
    BY <1>4, <2>1, <2>2
  <2>4. ASSUME NEW k \in Keys \ call[s].peers
        PROVE  Cardinality(Entries(router'.peers, k)) <= Cardinality(Entries(call[s].todo, k))
    <3>1. Cardinality(Entries(router.peers, k)) <= Cardinality(Entries(call[s].todo, k)) + 0
      BY <2>1
    <3>2. Cardinality(Entries(call[s].todo, k)) \in Nat
      BY <1>2, EntriesCount DEF Holds
    <3>3. Entries(router'.peers, k) = Entries(router.peers, k)
      BY <1>4, <1>5, <1>6 DEF Entries
    <3> QED
      BY <3>1, <3>2, <3>3
  <2> QED
    BY <2>3, <2>4
<1>8. LoneApply(s) => Addressed(s)
  BY <1>1, <1>5, AddressedStays DEF PeerCommands, NewCommands
<1>9. Holds(call[s], router') /\ Same(s, call[s])
  BY <1>5, HoldsStays DEF Same
<1>10. \A e \in call[s].todo : e.key \notin call[s].peers
  BY <1>4
<1>11. \A d \in NextPeer(call[s]) : Fine(s, d)
  BY <1>2, <1>5, <1>7, <1>8, <1>9, <1>10, NextPeerFine
<1> QED
  BY <1>1, <1>2, <1>5, <1>11, Moves

LEMMA MikrotikKept ==
  ASSUME IInv, NEW s \in Slots, kind = "mikrotik", UNCHANGED host, MikrotikStep(s)
  PROVE  Kept
BY InterfaceKept, AddressesKept, ListPeersKept, FindOldKept, DeletePeerKept, FindNewKept,
   PatchPeerKept, PutPeerKept, CallFailsKept
DEF MikrotikStep

---------------------------------------------------------------------------
\* Callers come and go.

LEMMA InitHolds == Init => IInv /\ Promise!Init
<1> SUFFICES ASSUME Init PROVE IInv /\ Promise!Init
  OBVIOUS
<1>0. IsFiniteSet({})
  BY FS_EmptySet
<1>1. /\ kind \in Kinds /\ remote \in BOOLEAN /\ (kind = "mikrotik" => ~remote)
      /\ router \in StartRouters /\ calls = 0
      /\ host = [link |-> FALSE, serves |-> {}, file |-> {}, loaded |-> {}]
      /\ call = [s \in Slots |-> NoCall]
      /\ period = [before |-> {}, involved |-> {}, crowded |-> FALSE]
  BY DEF Init, NoFile
<1>2. /\ host.link = FALSE /\ host.serves = {} /\ host.file = {} /\ host.loaded = {}
      /\ host \in Hosts
  BY <1>1 DEF Hosts, Files, NoFile
<1>3. router \in Routers /\ router.peers = {} /\ Distinct(router)
  BY <1>1, StartAssumption
<1>4. period.before = {} /\ period.involved = {} /\ period.crowded = FALSE /\ period \in Periods
  BY <1>1 DEF Periods
<1>5. /\ NoCall.op = "none" /\ NoCall.pc = "idle" /\ NoCall.peers = {} /\ NoCall.tunnel = {}
      /\ NoCall.gone = FALSE /\ NoCall.found = {} /\ NoCall.family = "ip" /\ NoCall.doomed = {}
      /\ NoCall.missing = {} /\ NoCall.todo = {} /\ NoCall.rest = {} /\ NoCall.key = {}
      /\ NoCall \in Calls
  BY DEF NoCall, Calls, Stages
<1> HIDE DEF NoCall
<1>6. CallInv(NoCall, router)
  BY <1>0, <1>5 DEF CallInv, Holds, Staged, IdsOf, OldCommands, NewCommands
<1>7. \A s \in Slots : call[s] = NoCall
  BY <1>1
<1>8. InFlight = {}
  BY <1>5, <1>7 DEF InFlight
<1>9. Types
  BY <1>0, <1>1, <1>2, <1>3, <1>4, <1>5, CallAssumption DEF Types
<1>10. Admits(period.involved, router, host)
  BY <1>2, <1>3, <1>4 DEF Admits, KeysOf
<1>11. IInv
  BY <1>5, <1>6, <1>7, <1>8, <1>9, <1>10 DEF IInv, LoneInv
<1>12. Live = {}
  BY <1>2, <1>3 DEF Live, Configured
<1>13. Promise!Init
  BY <1>4, <1>5, <1>7, <1>8, <1>12 DEF Promise!Init
<1> QED
  BY <1>11, <1>13

LEMMA LeaveKept ==
  ASSUME IInv, NEW s \in Slots, Leave(s)
  PROVE  Kept
<1> DEFINE c == [call[s] EXCEPT !.gone = TRUE]
<1>1. /\ s \in InFlight /\ call' = [call EXCEPT ![s] = c]
      /\ period' = [period EXCEPT !.before = {}, !.crowded = TRUE]
      /\ UNCHANGED <<kind, remote, calls, router, host>>
  BY DEF Leave, Abandon
<1>2. call \in [Slots -> Calls] /\ call[s] \in Calls /\ period \in Periods
  BY DEF IInv, Types
<1>3. /\ c \in Calls /\ c.pc = call[s].pc /\ c.family = call[s].family /\ c.found = call[s].found
      /\ c.op = call[s].op /\ c.peers = call[s].peers /\ c.tunnel = call[s].tunnel
      /\ c.rest = call[s].rest /\ c.todo = call[s].todo /\ c.key = call[s].key
      /\ c.doomed = call[s].doomed /\ c.missing = call[s].missing
  BY <1>2 DEF Calls
<1> HIDE DEF c
<1>4. /\ call' \in [Slots -> Calls] /\ call'[s] = c
      /\ \A t \in Slots \ {s} : call'[t] = call[t]
  BY <1>1, <1>2, <1>3
<1>5. /\ period' \in Periods /\ period'.involved = period.involved /\ period'.crowded = TRUE
  BY <1>1, <1>2 DEF Periods
<1>6. InFlight' = InFlight
  BY <1>3, <1>4 DEF InFlight
<1>7. \A t \in Slots : CallInv(call[t], router) /\ call[t].peers \subseteq period.involved
  BY DEF IInv
<1>8. CallInv(c, router)
  <2>1. Family(c) = Family(call[s]) /\ Wanted(c) = Wanted(call[s])
    BY <1>3 DEF Family, Wanted
  <2> QED
    BY <1>3, <1>7, <2>1 DEF CallInv, Holds, Staged, OursOnly
<1>9. \A t \in Slots : CallInv(call'[t], router')
  BY <1>1, <1>4, <1>7, <1>8
<1>10. (\A t \in Slots : CallInv(call[t], router))'
  BY <1>1, <1>9 DEF CallInv, Holds, Staged, OursOnly, CommandsOf, ApplyCommands, RemoveCommands
<1>11. \A t \in Slots : call'[t].peers \subseteq period'.involved
  BY <1>3, <1>4, <1>5, <1>7
<1>12. Types'
  BY <1>1, <1>4, <1>5 DEF IInv, Types
<1>13. Admits(period.involved, router, host)'
  BY <1>1, <1>5 DEF IInv, Admits
<1>14. LoneInv'
  BY <1>5 DEF LoneInv
<1>15. IInv'
  BY <1>10, <1>11, <1>12, <1>13, <1>14 DEF IInv
<1>16. Live' = Live /\ Live \in SUBSET period.involved
  BY <1>1 DEF Live, IInv, Admits, Configured, KeysOf
<1>17. Promise!Running = InFlight
  BY DEF Promise!Running, InFlight, Answered
<1>18. Promise!Abandon
  <2> DEFINE Seen(t) == [op     |-> call[t].op,
                         keys   |-> call[t].peers,
                         answer |-> IF t \in InFlight THEN "running" ELSE call[t].pc]
             seen == [t \in Slots |-> Seen(t)]
  <2>1. \A t \in Slots : Seen(t)' = Seen(t)
    BY <1>3, <1>4, <1>6
  <2>2. seen' = seen
    BY <2>1
  <2>3. (IF InFlight # {} /\ ~period.crowded THEN period.before ELSE Live)' = Live'
    BY <1>5
  <2> QED
    BY <1>1, <1>5, <1>16, <1>17, <2>2, <2>3 DEF Promise!Abandon, Promise!Mixes
<1>19. [Promise!Next]_Promise!vars
  BY <1>18 DEF Promise!Next
<1>20. \A t \in InFlight : call'[t].pc # "ok"
  BY <1>3, <1>4 DEF InFlight, Answered
<1> QED
  BY <1>1, <1>15, <1>16, <1>19, <1>20 DEF Kept, Foreign

\* Where a call starts there is nothing yet that it could have done.
LEMMA FirstCommands ==
  ASSUME IInv, NEW op \in {"apply", "remove"}
  PROVE  /\ First[op] \in CommandsOf(op) \ FileCommands
         /\ First[op] \in Commands \ (OldCommands \cup NewCommands
                                        \cup {"patch-interface", "delete-address", "put-address"})
         /\ op = "apply" => First[op] \notin AddressCommands \cup PeerCommands
<1> DEFINE starts == {"post", "get-interface", "get-addresses", "link-show", "link-del", "truncate",
                      "connection-delete", "remove-file"}
<1>1. /\ First[op] \in starts /\ First[op] \in CommandsOf(op)
      /\ op = "apply" => First[op] # "get-addresses"
  <2>1. CASE kind = "mikrotik"
    <3>0. First = MikrotikFirst
      <4>1. kind = "mikrotik" /\ ~remote
        BY <2>1 DEF IInv, Types
      <4> QED
        BY <4>1 DEF First
    <3>1. First = [apply |-> "get-interface", remove |-> "get-addresses"]
      BY <3>0 DEF MikrotikFirst
    <3>2. First["apply"] = "get-interface" /\ First["remove"] = "get-addresses"
      BY <3>1
    <3> QED
      BY <3>2, <2>1 DEF CommandsOf, ApplyCommands, RemoveCommands
  <2>2. CASE kind # "mikrotik" /\ remote
    <3>1. First = [apply |-> "post", remove |-> "post"]
      BY <2>2 DEF First, AgentFirst
    <3>2. First["apply"] = "post" /\ First["remove"] = "post"
      BY <3>1
    <3> QED
      BY <3>2, <2>2 DEF CommandsOf, ApplyCommands, RemoveCommands
  <2>3. CASE kind = "self-managed" /\ ~remote
    <3>1. First = [apply |-> "link-show", remove |-> "link-del"]
      BY <2>3 DEF First, LocalFirst
    <3>2. First["apply"] = "link-show" /\ First["remove"] = "link-del"
      BY <3>1
    <3> QED
      BY <3>2, <2>3 DEF CommandsOf, ApplyCommands, RemoveCommands
  <2>4. CASE kind = "network-manager" /\ ~remote
    <3>1. First = [apply |-> "truncate", remove |-> "connection-delete"]
      BY <2>4 DEF First, LocalFirst
    <3>2. First["apply"] = "truncate" /\ First["remove"] = "connection-delete"
      BY <3>1
    <3> QED
      BY <3>2, <2>4 DEF CommandsOf, ApplyCommands, RemoveCommands
  <2>5. CASE kind \notin {"mikrotik", "self-managed", "network-manager"} /\ ~remote
    <3>1. First = [apply |-> "truncate", remove |-> "remove-file"]
      BY <2>5 DEF First, LocalFirst
    <3>2. First["apply"] = "truncate" /\ First["remove"] = "remove-file"
      BY <3>1
    <3> QED
      BY <3>2, <2>5 DEF CommandsOf, ApplyCommands, RemoveCommands
  <2> QED
    BY <2>1, <2>2, <2>3, <2>4, <2>5
<1>2. \A x \in starts : /\ x \notin FileCommands
                        /\ x \in Commands
                        /\ x \notin OldCommands \cup NewCommands
                        /\ x \notin {"patch-interface", "delete-address", "put-address"}
                        /\ x # "get-addresses" => x \notin AddressCommands \cup PeerCommands
  BY DEF FileCommands, Commands, OldCommands, NewCommands, AddressCommands, PeerCommands
<1> HIDE DEF starts
<1> QED
  BY <1>1, <1>2

LEMMA BeginKept ==
  ASSUME IInv, NEW s \in Slots, Begin(s)
  PROVE  Kept
<1>1. PICK op \in {"apply", "remove"}, peers \in SUBSET Keys, tunnel \in Tunnels \cup {{}} :
        /\ s \notin InFlight
        /\ calls < MaxCalls
        /\ op = "remove" => peers = {}
        /\ tunnel \in IF kind = "mikrotik" /\ op = "apply" THEN Tunnels ELSE {{}}
        /\ calls' = calls + 1
        /\ call' = [call EXCEPT ![s] =
             [NoCall EXCEPT !.op = op, !.peers = peers, !.tunnel = tunnel, !.pc = First[op]]]
        /\ period' = IF InFlight = {}
                     THEN [before |-> Live, involved |-> period.involved \cup peers,
                           crowded |-> FALSE]
                     ELSE [before |-> {}, involved |-> period.involved \cup peers, crowded |-> TRUE]
        /\ UNCHANGED <<kind, remote>>
  BY DEF Begin, Begins
<1> DEFINE x == First[op]
           c == [NoCall EXCEPT !.op = op, !.peers = peers, !.tunnel = tunnel, !.pc = x]
<1>2. UNCHANGED <<kind, remote, router, host>>
  BY <1>1 DEF Begin
<1>3. /\ x \in CommandsOf(op) \ FileCommands
      /\ x \in Commands \ (OldCommands \cup NewCommands
                             \cup {"patch-interface", "delete-address", "put-address"})
      /\ op = "apply" => x \notin AddressCommands \cup PeerCommands
      /\ x \notin Answered \cup {"idle"}
  BY FirstCommands, StageFacts
<1>4. tunnel \in SUBSET (V4 \cup V6) /\ (op = "remove" => tunnel = {})
  BY <1>1, CallAssumption
<1>5. call' = [call EXCEPT ![s] = c]
  BY <1>1
<1> HIDE DEF x
<1>6. /\ c.pc = x /\ c.family = "ip" /\ c.found = {} /\ c.op = op /\ c.peers = peers
      /\ c.tunnel = tunnel /\ c.rest = {} /\ c.todo = {} /\ c.key = {} /\ c.doomed = {}
      /\ c.missing = {} /\ c.gone = FALSE
  BY DEF NoCall
<1>7. c \in Calls
  BY <1>3, <1>4 DEF NoCall, Calls, Stages
<1> HIDE DEF c
<1>8. CallInv(c, router)
  <2>1. IsFiniteSet({})
    BY FS_EmptySet
  <2> QED
    BY <1>1, <1>3, <1>4, <1>6, <2>1 DEF CallInv, Holds, Staged, IdsOf, OldCommands, NewCommands
<1>9. call \in [Slots -> Calls] /\ period \in Periods /\ calls \in 0..MaxCalls
  BY DEF IInv, Types
<1>10. /\ call' \in [Slots -> Calls] /\ call'[s] = c
       /\ \A t \in Slots \ {s} : call'[t] = call[t]
  BY <1>5, <1>7, <1>9
<1>11. InFlight' = InFlight \cup {s}
  BY <1>3, <1>6, <1>10 DEF InFlight
<1>12. /\ Live' = Live /\ Live \subseteq period.involved /\ period.involved \subseteq Keys
  BY <1>2, <1>9 DEF Live, IInv, Admits, Configured, KeysOf, Periods
<1>13. /\ period' \in Periods /\ period'.involved = period.involved \cup peers
       /\ period'.crowded = (InFlight # {})
       /\ InFlight = {} => period'.before = Live
  <2>1. CASE InFlight = {}
    BY <1>1, <1>12, <2>1 DEF Periods
  <2>2. CASE InFlight # {}
    BY <1>1, <1>12, <2>2 DEF Periods
  <2> QED
    BY <2>1, <2>2
<1>14. \A t \in Slots : CallInv(call'[t], router')
  BY <1>2, <1>8, <1>10 DEF IInv
<1>15. (\A t \in Slots : CallInv(call[t], router))'
  BY <1>2, <1>14 DEF CallInv, Holds, Staged, OursOnly, CommandsOf, ApplyCommands, RemoveCommands
<1>16. \A t \in Slots : call'[t].peers \subseteq period'.involved
  BY <1>6, <1>10, <1>13 DEF IInv
<1>17. calls' \in 0..MaxCalls
  BY <1>1, <1>9, CallAssumption
<1>18. Types'
  BY <1>2, <1>10, <1>13, <1>17 DEF IInv, Types
<1>19. Admits(period.involved, router, host)'
  BY <1>2, <1>13 DEF IInv, Admits
<1>20. LoneInv'
  <2> SUFFICES ASSUME InFlight = {}
               PROVE  /\ InFlight' = {s} /\ ~call'[s].gone
                      /\ period'.before \cap call'[s].peers \subseteq Live'
                      /\ Progress(call[s], router, host)'
    BY <1>13 DEF LoneInv
  <2>1. Progress(c, router', host')
    <3> SUFFICES ASSUME op = "apply"
                 PROVE  Addresses(c, router') /\ Devices(c, router') /\ Files2(c, host')
      BY <1>6 DEF Progress
    <3>1. x \notin AddressCommands /\ x \notin PeerCommands /\ x \notin FileCommands
      BY <1>3
    <3>2. x \notin OldCommands /\ x \notin NewCommands
      BY <3>1 DEF PeerCommands
    <3>3. x \notin {"delete-address", "put-address"} /\ x \notin {"delete-peer", "patch-peer"}
      BY <3>1, <3>2 DEF AddressCommands, OldCommands, NewCommands
    <3>4. Addresses(c, router')
      BY <1>6, <3>1, <3>3 DEF Addresses
    <3>5. Devices(c, router')
      BY <1>6, <3>1, <3>2, <3>3 DEF Devices
    <3>6. Files2(c, host')
      BY <1>6, <3>1 DEF Files2, FileCommands
    <3> QED
      BY <3>4, <3>5, <3>6
  <2>2. Progress(call[s], router, host)'
    BY <2>1, <1>2, <1>10 DEF Progress, Addresses, Devices, Files2
  <2> QED
    BY <1>6, <1>10, <1>11, <1>12, <1>13, <2>2
<1>21. IInv'
  BY <1>15, <1>16, <1>18, <1>19, <1>20 DEF IInv
<1>22. [Promise!Next]_Promise!vars
  <2> DEFINE Seen(t) == [op     |-> call[t].op,
                         keys   |-> call[t].peers,
                         answer |-> IF t \in InFlight THEN "running" ELSE call[t].pc]
             seen == [t \in Slots |-> Seen(t)]
             live == IF InFlight # {} /\ ~period.crowded THEN period.before ELSE Live
  <2>1. Promise!Running = InFlight
    BY DEF Promise!Running, InFlight, Answered
  <2>2. \A t \in Slots \ {s} : Seen(t)' = Seen(t)
    BY <1>10, <1>11
  <2>3. Seen(s)' = [op |-> op, keys |-> peers, answer |-> "running"]
    BY <1>6, <1>10, <1>11
  <2>4. seen' = [seen EXCEPT ![s] = [op |-> op, keys |-> peers, answer |-> "running"]]
    BY <2>2, <2>3
  <2>5. live' = Live
    BY <1>11, <1>12, <1>13
  <2>6. InFlight = {} => live' = live
    BY <2>5
  <2>7. Promise!Begin(s, op, peers)
    BY <1>1, <1>12, <1>13, <2>1, <2>4, <2>5, <2>6 DEF Promise!Begin, Promise!Mixes
  <2>8. (op = "apply" /\ peers \in SUBSET Keys) \/ (op = "remove" /\ peers = {})
    BY <1>1
  <2> QED
    BY <2>7, <2>8 DEF Promise!Next
<1>23. \A t \in InFlight : call'[t].pc # "ok"
  BY <1>1, <1>10 DEF InFlight, Answered
<1> QED
  BY <1>2, <1>12, <1>21, <1>22, <1>23 DEF Kept, Foreign

LEMMA StutterKept ==
  ASSUME IInv, UNCHANGED vars
  PROVE  Kept
<1>1. UNCHANGED <<kind, remote, call, calls, period, router, host>>
  BY DEF vars
<1>2. InFlight' = InFlight /\ Live' = Live
  BY <1>1 DEF InFlight, Live
<1>3. \A t \in Slots : CallInv(call'[t], router')
  BY <1>1 DEF IInv
<1>4. (\A t \in Slots : CallInv(call[t], router))'
  BY <1>1, <1>3 DEF CallInv, Holds, Staged, OursOnly, CommandsOf, ApplyCommands, RemoveCommands
<1>5. Types' /\ Admits(period.involved, router, host)'
  BY <1>1 DEF IInv, Types, Admits
<1>6. LoneInv'
  BY <1>1, <1>2 DEF IInv, LoneInv, Progress, Addresses, Devices, Files2
<1>7. IInv'
  BY <1>1, <1>4, <1>5, <1>6 DEF IInv
<1>8. UNCHANGED Promise!vars
  BY <1>1, <1>2 DEF Promise!vars
<1>9. \A t \in InFlight : call'[t].pc # "ok"
  BY <1>1 DEF InFlight, Answered
<1> QED
  BY <1>1, <1>2, <1>7, <1>8, <1>9 DEF Kept, Foreign

LEMMA NextKept == IInv /\ [Next]_vars => Kept
<1> SUFFICES ASSUME IInv, [Next]_vars PROVE Kept
  OBVIOUS
<1>1. CASE UNCHANGED vars
  BY <1>1, StutterKept
<1>2. CASE Next
  <2>1. PICK s \in Slots : Begin(s) \/ Leave(s) \/ Step(s)
    BY <1>2 DEF Next
  <2>2. CASE Begin(s)
    BY <2>2, BeginKept
  <2>3. CASE Leave(s)
    BY <2>3, LeaveKept
  <2>4. CASE Step(s)
    BY <2>4, MikrotikKept, LocalKept DEF Step
  <2> QED
    BY <2>1, <2>2, <2>3, <2>4
<1> QED
  BY <1>1, <1>2

\* What each call has left behind and has still to do is true after every step
\* of any other (WireguardBackend::apply and remove, called without a lock).
THEOREM Invariance == Spec => []IInv
<1>1. IInv /\ [Next]_vars => IInv'
  BY NextKept DEF Kept
<1> QED
  BY <1>1, InitHolds, PTL DEF Spec

\* Every backend keeps its state well typed, and the router's entries apart,
\* for any number of overlapping calls (MikrotikBackend::apply and remove,
\* wg-backend/src/mikrotik.rs, and the local backends).
THEOREM TypeCorrect == Spec => []TypeOK
<1>1. ASSUME IInv PROVE TypeOK
  <2>1. /\ kind \in Kinds /\ remote \in BOOLEAN /\ calls \in 0..MaxCalls
        /\ period \in Periods /\ router \in Routers /\ Distinct(router) /\ host \in Hosts
    BY <1>1 DEF IInv, Types
  <2>2. ASSUME NEW s \in Slots
        PROVE  /\ DOMAIN call[s] = DOMAIN NoCall
               /\ call[s].pc \in Commands \cup Answered \cup {"idle"}
               /\ call[s].op \in {"none", "apply", "remove"}
               /\ call[s].peers \in SUBSET Keys
               /\ call[s].tunnel \in SUBSET (V4 \cup V6)
               /\ call[s].gone \in BOOLEAN
               /\ call[s].missing \in SUBSET (V4 \cup V6)
               /\ call[s].rest \cup call[s].key \subseteq Keys
               /\ call[s].todo \in SUBSET [id : Nat, key : Keys]
               /\ call[s].found \cup call[s].doomed \cup IdsOf(call[s].todo)
                    \subseteq 0..router.last
    <3>1. call[s] \in Calls /\ Holds(call[s], router)
      BY <1>1 DEF IInv, Types, CallInv
    <3>2. DOMAIN call[s] = DOMAIN NoCall
      BY <3>1 DEF Calls, NoCall
    <3>3. call[s].found \cup call[s].doomed \cup IdsOf(call[s].todo) \subseteq Nat
      BY <3>1 DEF Calls, IdsOf
    <3>4. call[s].found \cup call[s].doomed \cup IdsOf(call[s].todo) \subseteq 0..router.last
      BY <2>1, <3>1, <3>3 DEF Holds, Routers
    <3> QED
      BY <3>1, <3>2, <3>4 DEF Calls, Stages
  <2> QED
    BY <2>1, <2>2 DEF TypeOK, Periods
<1> QED
  BY <1>1, Invariance, PTL

\* The backends are refinements of ApplyPromise: a lone Ok leaves exactly what
\* was pushed, and nothing that happens lets in a device that was not pushed
\* (WireguardBackend::apply and remove, wg-backend/src/lib.rs).
THEOREM Refines == Spec => KeepsApplyPromise
<1>1. IInv /\ [Next]_vars => [Promise!Next]_Promise!vars
  BY NextKept DEF Kept
<1> QED
  BY <1>1, InitHolds, Invariance, PTL DEF Spec, KeepsApplyPromise, Promise!Spec

\* Overlapping calls never cut off a device that both want: entries of the
\* router are compared, syncconf takes the new set at once.
THEOREM NobodyDropped == Spec => NoDropout
<1>1. IInv /\ [Next]_vars =>
        ((kind \in {"mikrotik", "self-managed"})
           => \A k \in Live \ Live' : \E s \in InFlight : CutsOff(s, k))
  BY NextKept DEF Kept
<1> QED
  BY <1>1, Invariance, PTL DEF Spec, NoDropout

\* reconcile_addresses keeps its hands off the addresses of others, and leaves
\* ours as the row has them, for any addresses and whatever was there before.
THEOREM AddressesReconciled == Spec => OursReconciled
<1>1. IInv /\ [Next]_vars =>
        /\ Foreign' = Foreign
        /\ \A s \in InFlight :
             (kind = "mikrotik" /\ call'[s].pc = "ok" /\ ~period.crowded)
               => OurAddresses' = call[s].tunnel
  BY NextKept DEF Kept
<1> QED
  BY <1>1, Invariance, PTL DEF Spec, OursReconciled
=============================================================================
