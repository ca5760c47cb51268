---------------------------- MODULE MCDeviceSync ----------------------------
(* Small databases for the model checker.                                  *)
EXTENDS DeviceSyncPromise, TLC

\* Nothing is configured yet.  Devices of no row have a home and an owner too:
\* the columns only count once the row exists.
EmptyTables ==
  [spent |-> {}, users |-> {}, banned |-> {}, revoked |-> {}, live |-> {},
   claims |-> [c \in Users \X Providers |-> {}],
   groups |-> {}, admits |-> [g \in Groups |-> {}],
   ifaces |-> {}, refs |-> [i \in Ifaces |-> {}],
   peers |-> {}, home |-> [p \in Peers |-> CHOOSE i \in Ifaces : TRUE],
   owner |-> [p \in Peers |-> NoUser], gen |-> [p \in Peers |-> 0]]

EmptyStart == {EmptyTables}

\* Every user is admitted, by email, to every interface, and the devices are
\* spread over users and interfaces in every way.
SettledTables(h, o) ==
  [EmptyTables EXCEPT
     !.spent = Users \cup Groups \cup Ifaces \cup Peers,
     !.users = Users, !.live = Users,
     !.groups = Groups, !.admits = [g \in Groups |-> Users],
     !.ifaces = Ifaces, !.refs = [i \in Ifaces |-> Groups],
     !.peers = Peers, !.home = h, !.owner = o, !.gen = [p \in Peers |-> 1]]

SettledStart ==
  {SettledTables(h, o) : h \in [Peers -> Ifaces], o \in [Peers -> Users]}

\* The same, but the groups admit by the claims, and every user has them all.
ClaimedStart ==
  {[d EXCEPT !.admits = [g \in Groups |-> Claims],
             !.claims = [c \in Users \X Providers |-> Claims]] : d \in SettledStart}

SlotSymmetry == Permutations(Slots)
=============================================================================
