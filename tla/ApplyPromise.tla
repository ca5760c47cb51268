---------------------------- MODULE ApplyPromise ----------------------------
(***************************************************************************)
(* What one interface's backend promises the reconciler, whatever commands *)
(* or calls its apply is made of.  As long as one call runs at a time, it  *)
(* is one step, taken when it answers: Ok leaves exactly the devices that  *)
(* were pushed, and an error drops nobody who was served and is wanted,    *)
(* and admits nobody but those pushed now or since the last such Ok.       *)
(* DeviceSync's ApplyOk and ApplyFails are these two steps.  When calls    *)
(* overlap, or one is abandoned and goes on unseen, all that is promised   *)
(* is that nobody else gets in.                                            *)
(***************************************************************************)
CONSTANTS Slots, Keys

VARIABLES
  live,       \* the devices the backend serves
  call,       \* the call in each slot
  involved,   \* the devices pushed since a lone call answered Ok, and by it
  crowded     \* whether calls have overlapped since the backend was at rest

vars == <<live, call, involved, crowded>>

Running == {s \in Slots : call[s].answer = "running"}

Init ==
  /\ live = {}
  /\ call = [s \in Slots |-> [op |-> "none", keys |-> {}, answer |-> "idle"]]
  /\ involved = {}
  /\ crowded = FALSE

\* Overlapping calls may change the devices at any moment.
Mixes == live' \in SUBSET involved'

Begin(s, op, keys) ==
  /\ s \notin Running
  /\ call' = [call EXCEPT ![s] = [op |-> op, keys |-> keys, answer |-> "running"]]
  /\ involved' = involved \cup keys
  /\ crowded' = (Running # {})
  /\ IF Running = {} THEN live' = live ELSE Mixes

Answers(s, how) ==
  /\ s \in Running
  /\ call' = [call EXCEPT ![s] = [op |-> "none", keys |-> {}, answer |-> how]]
  /\ UNCHANGED crowded

Ok(s) ==
  /\ Answers(s, "ok")
  /\ call[s].op = "apply"
  /\ IF crowded
     THEN Mixes /\ UNCHANGED involved
     ELSE live' = call[s].keys /\ involved' = call[s].keys

\* An error, or an Ok that hides one ("unsure"), as every remove's does.
Fails(s) ==
  /\ \E how \in {"failed", "unsure"} : Answers(s, how)
  /\ UNCHANGED involved
  /\ Mixes
  /\ ~crowded => live \cap call[s].keys \subseteq live'

\* A caller goes away while its call runs on.
Abandon ==
  /\ Running # {}
  /\ crowded' = TRUE
  /\ UNCHANGED <<call, involved>>
  /\ Mixes

Mix ==
  /\ crowded
  /\ Running # {}
  /\ UNCHANGED <<call, involved, crowded>>
  /\ Mixes

Next ==
  \/ Abandon
  \/ Mix
  \/ \E s \in Slots :
       \/ \E keys \in SUBSET Keys : Begin(s, "apply", keys)
       \/ Begin(s, "remove", {})
       \/ Ok(s)
       \/ Fails(s)

Spec == Init /\ [][Next]_vars
=============================================================================
