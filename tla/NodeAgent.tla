------------------------------ MODULE NodeAgent ------------------------------
(***************************************************************************)
(* The node agent: NodeBackend posts the whole desired state, the agent's  *)
(* handler checks the key and runs its own local backend.  The answer may  *)
(* be lost after that (Completed), and a connection that breaks leaves the *)
(* handler running for a while (Abandon).                                  *)
(***************************************************************************)
EXTENDS LocalBackend

\* The request reaches the agent, with the key it expects.
Accepted(s) ==
  /\ At(s, "post")
  /\ GoesOn(s, Then(s, LocalFirst[call[s].op]))
  /\ UNCHANGED host

\* The agent has another key, or is not reached: nothing is done.
Refused(s) ==
  /\ At(s, "post")
  /\ Stops(s)
  /\ UNCHANGED host

AgentStep(s) == Accepted(s) \/ Refused(s) \/ LocalStep(s)

AgentFirst == [apply |-> "post", remove |-> "post"]
=============================================================================
