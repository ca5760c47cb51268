---------------------------- MODULE AccessPromise ----------------------------
(***************************************************************************)
(* What wg-vpng promises of an interface, without tasks, statements or     *)
(* snapshots: the rows allow a set of devices, and the backend is brought  *)
(* to exactly that set.  Devices are dropped only by enforcing a decision  *)
(* or by taking the whole interface down, never added without one, and     *)
(* what is decided is enforced in the end.                                 *)
(***************************************************************************)
CONSTANTS Ifaces, Keys

VARIABLES
  allowed,    \* the devices each interface should serve
  enforced    \* the devices its backend serves

vars == <<allowed, enforced>>

Init ==
  /\ allowed \in [Ifaces -> SUBSET Keys]
  /\ enforced = [i \in Ifaces |-> {}]

\* What is allowed changes, by a request or with time.
Decide ==
  /\ allowed' \in [Ifaces -> SUBSET Keys]
  /\ UNCHANGED enforced

\* One call brings a backend to what is allowed at that moment.
Enforce(i) ==
  /\ enforced' = [enforced EXCEPT ![i] = allowed[i]]
  /\ UNCHANGED allowed

\* An interface about to be deleted is taken down first.
TakeDown(i) ==
  /\ enforced' = [enforced EXCEPT ![i] = {}]
  /\ UNCHANGED allowed

Next == Decide \/ \E i \in Ifaces : Enforce(i) \/ TakeDown(i)

Spec == Init /\ [][Next]_vars /\ \A i \in Ifaces : WF_vars(Enforce(i))
=============================================================================
