----------------------------- MODULE MCBackends -----------------------------
(* Small instance of Backends.                                             *)
EXTENDS BackendsPromise, TLC

CONSTANTS foreign, wanted, leftover

V4Addresses == {foreign, leftover}
V6Addresses == {wanted}

TunnelSets == {{wanted}}

\* A router whose interface somebody gave the address foreign, and that has kept
\* the address leftover from an interface of ours that was deleted.
UsedRouter ==
  {[iface |-> {1},
    addrs |-> {[id |-> 2, addr |-> foreign, ours |-> FALSE], [id |-> 3, addr |-> leftover, ours |-> TRUE]},
    peers |-> {}, last |-> 3]}

Symmetry == Permutations(Slots) \cup Permutations(Keys)
=============================================================================
