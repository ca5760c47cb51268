----------------------------- MODULE BackendCall -----------------------------
(***************************************************************************)
(* One call of a backend - WireguardBackend::apply or remove - as a task   *)
(* that waits for one command or REST call at a time.  pc names the one it *)
(* waits for: that is where other calls interleave, where it may fail, and *)
(* where its caller may go away.  What was started then still finishes.    *)
(***************************************************************************)
EXTENDS Naturals

CONSTANTS
  Slots,      \* the calls that may be in flight on the interface at once
  Keys,       \* the devices' public keys
  V4, V6,     \* addresses the interface may be given, per family
  Tunnels,    \* the sets of addresses a row of the interface may carry
  MaxCalls    \* bound on the calls made

ASSUME CallAssumption ==
  /\ V4 \cap V6 = {}
  /\ Tunnels \subseteq SUBSET (V4 \cup V6)
  /\ MaxCalls \in Nat

VARIABLES
  kind,       \* the backend the interface was created with: never changes
  remote,     \* whether a node agent runs it, for a NodeBackend
  call,       \* the call in each slot and its local variables
  calls,      \* calls made so far
  period      \* history, which no guard reads.  before: what the backend served
              \* when it was last at rest; crowded: whether calls have overlapped
              \* since; involved: what was pushed since a lone call's last Ok

Kinds == {"mikrotik", "self-managed", "network-manager", "systemd-networkd"}

Answered == {"ok", "unsure", "failed"}

\* Two of these are one answer to the caller: "unsure" is an Ok by code that
\* ignores an error on the way, so that nothing follows from it.
InFlight == {s \in Slots : call[s].pc \notin Answered \cup {"idle"}}

NoCall ==
  [op |-> "none", pc |-> "idle", peers |-> {}, tunnel |-> {}, gone |-> FALSE,
   found |-> {}, family |-> "ip", doomed |-> {}, missing |-> {},
   todo |-> {}, rest |-> {}, key |-> {}]

At(s, command) == call[s].pc = command

\* A call that is done keeps its answer, no locals.
Answer(how) == [NoCall EXCEPT !.pc = how]

\* What a call that did all it had to do may answer: remove answers Ok whatever
\* went wrong, and a node's answer may be lost.
Completed(c) ==
  {Answer(IF c.op = "remove" THEN "unsure" ELSE "ok")}
    \cup (IF remote THEN {Answer("failed")} ELSE {})

\* A lone call's Ok leaves nothing behind but what it pushed.
Outcome(s, c) ==
  period' = [before   |-> IF c.pc \in Answered THEN {} ELSE period.before,
             involved |-> IF c.pc = "ok" /\ ~period.crowded THEN call[s].peers
                          ELSE period.involved,
             crowded  |-> period.crowded]

\* The call goes on as one of "next".  One whose caller is gone stops here: the
\* handler is dropped at an await, the agent's own when it notices.
GoesOn(s, next) ==
  /\ \E c \in next \cup {Answer("failed")} :
       /\ ~call[s].gone => c \in next
       /\ call[s].gone /\ c.pc # "failed" => remote /\ c.pc \notin Answered
       /\ call' = [call EXCEPT ![s] = c]
       /\ Outcome(s, c)
  /\ UNCHANGED <<kind, remote, calls>>

Stops(s) == GoesOn(s, {Answer("failed")})

\* A caller may push any devices, and the addresses of a row; only the router's
\* tables of them are modelled.
Begins(s, first, live) ==
  \E op \in {"apply", "remove"}, peers \in SUBSET Keys, tunnel \in Tunnels \cup {{}} :
    /\ s \notin InFlight
    /\ calls < MaxCalls
    /\ op = "remove" => peers = {}
    /\ tunnel \in IF kind = "mikrotik" /\ op = "apply" THEN Tunnels ELSE {{}}
    /\ calls' = calls + 1
    /\ call' = [call EXCEPT ![s] =
         [NoCall EXCEPT !.op = op, !.peers = peers, !.tunnel = tunnel, !.pc = first[op]]]
    /\ period' = IF InFlight = {}
                 THEN [before |-> live, involved |-> period.involved \cup peers, crowded |-> FALSE]
                 ELSE [before |-> {}, involved |-> period.involved \cup peers, crowded |-> TRUE]
    /\ UNCHANGED <<kind, remote>>

\* The client of the request, and with it the request, goes away.
Abandon(s) ==
  /\ s \in InFlight
  /\ ~call[s].gone
  /\ call' = [call EXCEPT ![s].gone = TRUE]
  /\ period' = [period EXCEPT !.before = {}, !.crowded = TRUE]
  /\ UNCHANGED <<kind, remote, calls>>
=============================================================================
