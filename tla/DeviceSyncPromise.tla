-------------------------- MODULE DeviceSyncPromise --------------------------
(***************************************************************************)
(* The reconciler against AccessPromise: what the rows permit is what is   *)
(* allowed, what the backends hold is what is enforced.                    *)
(***************************************************************************)
EXTENDS DeviceSync

Promise == INSTANCE AccessPromise
  WITH allowed <- [i \in Ifaces |-> Active(db, i)], enforced <- backend

\* Requests that sync, run one after the other on backends that do not fail,
\* keep the promise through restarts of the server: no backend is ever brought
\* to anything but what the rows permit at the moment of the call, and every
\* change these requests make is enforced in the end.  Logins and lapses are
\* not among them: they change who is permitted and sync nothing
\* (LapseOrLoginTakesHold).
KeepsPromise == Promise!Spec
=============================================================================
