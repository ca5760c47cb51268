----------------------------- MODULE MCRequests -----------------------------
(* Small instance of Requests.                                             *)
EXTENDS Requests, TLC

CONSTANTS ann, bob, staff, adminToken, apiToken

Kinds == (adminToken :> "admin") @@ (apiToken :> "api")

First(email) == [email |-> email, nth |-> 1]

\* ann is an admin, whose account was deleted while her session goes on; bob has
\* a device an admin made, and there is one nobody owns.
OldUsers ==
  {[id |-> First(bob), admin |-> FALSE, banned |-> FALSE, live |-> "renewed", claims |-> {}]}

OldDevices ==
  {[id |-> 1, owner |-> {First(bob)}, own |-> FALSE, key |-> 1, name |-> "given"],
   [id |-> 2, owner |-> {}, own |-> FALSE, key |-> 2, name |-> "given"]}

OldSessions == {[email |-> ann, admin |-> TRUE], [email |-> bob, admin |-> FALSE]}

OldGroup == [emails |-> {bob}, claims |-> {}]

NewGroups == {[emails |-> {}, claims |-> {staff}], [emails |-> {ann}, claims |-> {}]}

Symmetry == Permutations(Slots)
=============================================================================
