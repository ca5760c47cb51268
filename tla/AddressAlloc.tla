---------------------------- MODULE AddressAlloc ----------------------------
(***************************************************************************)
(* The address arithmetic of wg.rs: how wg-vpng finds a free host address  *)
(* in each subnet of an interface, and a free routed subnet inside one.    *)
(* An address is a number below 2^Width of its family; a net is a CIDR     *)
(* that keeps its host bits, as IpNet does.                                *)
(***************************************************************************)
EXTENDS Naturals, Sequences, SequencesExt

CONSTANT Width   \* bits of an address, by family: 32 and 128 in the code

Families == {"v4", "v6"}

ASSUME WidthAssumption == Width \in [Families -> Nat]

Addrs(fam) == 0 .. 2^Width[fam] - 1

Nets == UNION {[fam : {f}, addr : Addrs(f), len : 0..Width[f]] : f \in Families}

\* A device's or an interface's address column: a comma-list of nets.
Blocks == Seq(Nets)

Size(n) == 2^(Width[n.fam] - n.len)

NetworkAddr(n) == n.addr - (n.addr % Size(n))

Broadcast(n) == NetworkAddr(n) + Size(n) - 1

Covers(n, fam, a) == n.fam = fam /\ a \in NetworkAddr(n)..Broadcast(n)

Host(fam, a) == [fam |-> fam, addr |-> a, len |-> Width[fam]]

Hosts == UNION {{Host(f, a) : a \in Addrs(f)} : f \in Families}

\* nets_overlap: one contains the other's network address.
Overlap(m, n) ==
  \/ Covers(m, n.fam, NetworkAddr(n))
  \/ Covers(n, m.fam, NetworkAddr(m))

\* addrs_of, over the entries of taken: the part before each "/".
AddrsOf(taken) == UNION {{<<n.fam, n.addr>> : n \in ToSet(t)} : t \in taken}

Server(subnets) == {<<n.fam, n.addr>> : n \in ToSet(subnets)}

\* The hosts of n the loop may take: never its first nor its last address.
FreeHosts(n, used) ==
  {a \in NetworkAddr(n) + 1 .. Broadcast(n) - 1 : <<n.fam, a>> \notin used}

\* The empty list stands for the Err: no subnet list is empty.
NoAddress == << >>

\* The loop over the subnets: out has the lowest host of each that is neither
\* used nor given out for an earlier one.
Assigned(out, subnets, used) ==
  \A i \in DOMAIN subnets :
    LET n    == subnets[i]
        free == FreeHosts(n, used \cup {<<out[j].fam, out[j].addr>> : j \in 1..i - 1})
    IN  /\ out[i].fam = n.fam
        /\ out[i].addr \in free /\ \A a \in free : out[i].addr =< a

\* allocate_addresses: the list the loop assigns, unless a subnet is full.
AllocateAddresses(subnets, taken) ==
  LET used  == AddrsOf(taken) \cup Server(subnets)
      lists == {out \in [DOMAIN subnets -> Hosts] : Assigned(out, subnets, used)}
  IN  IF lists = {} THEN NoAddress ELSE CHOOSE out \in lists : TRUE

\* The blocks of length len inside n, if n and its family have such blocks.
SubnetsOf(n, len) ==
  IF len \in n.len .. Width[n.fam]
  THEN {b \in [fam : {n.fam}, addr : NetworkAddr(n)..Broadcast(n), len : {len}] :
          b.addr = NetworkAddr(b)}
  ELSE {}

\* Mutant: a block is compared with the addresses of taken, not with its nets.
FreeBlocksByAddress(n, taken, len) ==
  {b \in SubnetsOf(n, len) :
     /\ ~Covers(b, n.fam, n.addr)
     /\ \A a \in AddrsOf(taken) : ~Covers(b, a[1], a[2])}

\* Those that hold neither the server's address nor anything taken.
FreeBlocks(n, taken, len) ==
  {b \in SubnetsOf(n, len) :
     /\ ~Covers(b, n.fam, n.addr)
     /\ \A t \in taken : \A m \in ToSet(t) : ~Overlap(b, m)}

\* The first of a set of numbers.
Lowest(S) == CHOOSE a \in S : \A b \in S : a =< b

\* allocate_subnet: the lowest free block of the first subnet that has one.
AllocateSubnet(subnets, taken, len) ==
  LET fitting == {i \in DOMAIN subnets : FreeBlocks(subnets[i], taken, len) # {}}
      blocks  == FreeBlocks(subnets[Lowest(fitting)], taken, len)
  IN  IF fitting = {} THEN NoAddress
      ELSE << CHOOSE b \in blocks : \A c \in blocks : b.addr =< c.addr >>
=============================================================================
