--------------------------- MODULE BackendsPromise ---------------------------
(***************************************************************************)
(* The backends against ApplyPromise: what a lone call does before it has  *)
(* answered is hidden, as if the backend changed when it answers.          *)
(***************************************************************************)
EXTENDS Backends

Promise == INSTANCE ApplyPromise WITH
  live     <- IF InFlight # {} /\ ~period.crowded THEN period.before ELSE Live,
  call     <- [s \in Slots |-> [op     |-> call[s].op,
                               keys   |-> call[s].peers,
                               answer |-> IF s \in InFlight THEN "running" ELSE call[s].pc]],
  involved <- period.involved,
  crowded  <- period.crowded

\* Every backend keeps the promise, whatever fails and however calls overlap: a
\* lone call that answers Ok leaves exactly what it pushed, also after calls that
\* failed half way or ran into each other, and one that fails drops no device it
\* was to keep and admits none that was not pushed.
KeepsApplyPromise == Promise!Spec

\* A call that does not want a device, or whose caller went away and closed the
\* pipe of syncconf half way.
CutsOff(s, k) ==
  \/ k \notin call[s].peers
  \/ call[s].gone /\ kind = "self-managed"

\* A device is cut off only by a call that does not want it: the router's
\* entries are compared, not replaced, and syncconf takes the new set at once,
\* so two overlapping calls that both want a device never drop it between them.
NoDropout ==
  [][(kind \in {"mikrotik", "self-managed"})
        => \A k \in Live \ Live' : \E s \in InFlight : CutsOff(s, k)]_vars

Foreign == {a \in router.addrs : ~a.ours}

OurAddresses == {a.addr : a \in router.addrs \ Foreign}

\* The router's addresses are reconciled by comment: those of others are never
\* touched, and a lone apply that answers Ok leaves ours exactly as the row has
\* them, whatever an earlier life of the interface left behind.
OursReconciled ==
  [][/\ Foreign' = Foreign
     /\ \A s \in InFlight :
          (kind = "mikrotik" /\ call'[s].pc = "ok" /\ ~period.crowded)
            => OurAddresses' = call[s].tunnel]_vars
=============================================================================
