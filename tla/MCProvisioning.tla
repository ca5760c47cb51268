--------------------------- MODULE MCProvisioning ---------------------------
(* Small instances of Provisioning.                                        *)
EXTENDS Provisioning

SmallWidth == [f \in Families |-> 3]

Net(f, a, l) == [fam |-> f, addr |-> a, len |-> l]

\* Dual stack, with the server's addresses at different places.
DualStack == << Net("v4", 1, 0), Net("v6", 2, 0) >>

\* A v6 subnet alone.
OnlyV6 == << Net("v6", 5, 0) >>

FixedHost == {<< Net("v6", 4, 3) >>}

SlotSymmetry == Permutations(Slots)
=============================================================================
