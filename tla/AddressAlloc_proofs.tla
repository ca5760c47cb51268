------------------------ MODULE AddressAlloc_proofs ------------------------
(***************************************************************************)
(* What the address arithmetic and the allocations of AddressAlloc give,   *)
(* for addresses of any width.                                             *)
(***************************************************************************)
EXTENDS AddressAlloc, Integers, FiniteSetTheorems, WellFoundedInduction, TLAPS

-----------------------------------------------------------------------------
(* Numbers.                                                                *)

\* The least-number principle, for a set: intervals of numbers are finite, and
\* the strict subset ordering on finite sets is well-founded.
LEMMA Least ==
  ASSUME NEW S \in SUBSET Nat, S # {}
  PROVE  \E m \in S : \A n \in S : m =< n
<1> DEFINE T == {0..n : n \in S}
<1>1. T \subseteq FiniteSubsetsOf(Nat) /\ T # {}
  <2>1. ASSUME NEW n \in S
        PROVE  0..n \in SUBSET Nat /\ IsFiniteSet(0..n)
    BY FS_Interval
  <2> QED
    BY <2>1 DEF FiniteSubsetsOf
<1>2. PICK U \in T : \A V \in T : <<V, U>> \notin StrictSubsetOrdering(Nat)
  BY <1>1, FS_StrictSubsetOrderingWellFounded, WFMin
<1>3. PICK m \in S : U = 0..m
  OBVIOUS
<1>4. ASSUME NEW n \in S, n < m
      PROVE  FALSE
  <2>1. 0..n \in T /\ 0..n \in SUBSET Nat /\ 0..m \in SUBSET Nat
    OBVIOUS
  <2>2. 0..n \subseteq 0..m /\ 0..n # 0..m
    BY <1>4
  <2> QED
    BY <1>2, <1>3, <2>1, <2>2 DEF StrictSubsetOrdering
<1> QED
  BY <1>4

\* Induction over the numbers, for a set.
LEMMA Induct ==
  ASSUME NEW T, 0 \in T, \A n \in Nat : n \in T => n + 1 \in T
  PROVE  Nat \subseteq T
<1> SUFFICES ASSUME NEW x \in Nat \ T
             PROVE  FALSE
  OBVIOUS
<1>1. PICK m \in Nat \ T : \A n \in Nat \ T : m =< n
  BY Least
<1>2. m # 0 /\ m - 1 \in Nat
  BY <1>1
<1>3. m - 1 \in T
  BY <1>1, <1>2
<1> QED
  BY <1>1, <1>2, <1>3

\* A power of two counts the subsets of a set.
LEMMA Subsets ==
  ASSUME NEW k \in Nat
  PROVE  /\ IsFiniteSet(SUBSET (1..k)) /\ Cardinality(SUBSET (1..k)) = 2^k
         /\ 2^k \in Nat /\ 2^k > 0
<1>1. IsFiniteSet(1..k) /\ Cardinality(1..k) = k
  BY FS_Interval
<1>2. IsFiniteSet(SUBSET (1..k)) /\ Cardinality(SUBSET (1..k)) = 2^k
  BY <1>1, FS_SUBSET
<1>3. Cardinality(SUBSET (1..k)) \in Nat /\ Cardinality(SUBSET (1..k)) # 0
  <2>1. {} \in SUBSET (1..k)
    OBVIOUS
  <2> QED
    BY <1>2, <2>1, FS_CardinalityType, FS_EmptySet
<1> QED
  BY <1>2, <1>3

\* ... so the powers multiply: a subset of 1..a+b is one of 1..a and one of 1..b.
LEMMA Powers ==
  ASSUME NEW a \in Nat, NEW b \in Nat
  PROVE  2^(a + b) = 2^a * 2^b
<1> DEFINE S == (SUBSET (1..a)) \X (SUBSET (1..b))
           T == SUBSET (1..(a + b))
           f == [p \in S |-> p[1] \cup {a + x : x \in p[2]}]
<1>1. IsFiniteSet(S) /\ Cardinality(S) = Cardinality(SUBSET (1..a)) * Cardinality(SUBSET (1..b))
  BY Subsets, FS_Product
<1>2. f \in [S -> T]
  <2>1. ASSUME NEW p \in S
        PROVE  p[1] \cup {a + x : x \in p[2]} \in T
    OBVIOUS
  <2> QED
    BY <2>1
<1>3. ASSUME NEW p \in S, NEW q \in S, f[p] = f[q]
      PROVE  p = q
  <2>1. \A x \in 1..a : (x \in p[1] <=> x \in f[p]) /\ (x \in q[1] <=> x \in f[q])
    OBVIOUS
  <2>2. \A x \in 1..b : (x \in p[2] <=> a + x \in f[p]) /\ (x \in q[2] <=> a + x \in f[q])
    OBVIOUS
  <2>3. p[1] = q[1]
    BY <1>3, <2>1
  <2>4. p[2] = q[2]
    BY <1>3, <2>2
  <2> QED
    BY <2>3, <2>4
<1>4. ASSUME NEW t \in T
      PROVE  \E p \in S : f[p] = t
  <2> DEFINE p == <<t \cap 1..a, {x \in 1..b : a + x \in t}>>
  <2>1. p \in S
    OBVIOUS
  <2>2. f[p] = p[1] \cup {a + x : x \in p[2]}
    BY <2>1
  <2>3. ASSUME NEW y \in t
        PROVE  y \in f[p]
    <3>1. CASE y \in 1..a
      BY <2>2, <3>1
    <3>2. CASE y \notin 1..a
      <4>1. y - a \in 1..b /\ a + (y - a) = y
        BY <3>2
      <4>2. y - a \in p[2]
        BY <4>1
      <4> QED
        BY <2>2, <4>1, <4>2
    <3> QED
      BY <3>1, <3>2
  <2>4. ASSUME NEW y \in f[p]
        PROVE  y \in t
    BY <2>2, <2>4
  <2> QED
    BY <2>1, <2>3, <2>4
<1>5. ExistsBijection(S, T)
  <2> HIDE DEF S, T, f
  <2>1. f \in Bijection(S, T)
    BY <1>2, <1>3, <1>4 DEF Bijection, Injection, IsInjective, Surjection
  <2> QED
    BY <2>1 DEF ExistsBijection
<1>6. Cardinality(T) = Cardinality(S)
  BY <1>1, <1>5, FS_Bijection
<1>7. /\ Cardinality(SUBSET (1..a)) = 2^a
      /\ Cardinality(SUBSET (1..b)) = 2^b
      /\ Cardinality(T) = 2^(a + b)
  <2>1. a + b \in Nat
    OBVIOUS
  <2> QED
    BY <2>1, Subsets
<1> QED
  BY <1>1, <1>6, <1>7

\* Rounding down to a multiple of s stays s below a multiple that is above.
LEMMA RoundedDown ==
  ASSUME NEW a \in Nat, NEW s \in Nat, s > 0, NEW m \in Nat, a < s * m
  PROVE  /\ a % s \in 0..a /\ a % s < s
         /\ (a - (a % s)) + s =< s * m
<1> DEFINE q == a \div s
<1>1. q \in Nat /\ a % s \in Nat /\ a % s < s /\ a = (s * q) + (a % s)
  OBVIOUS
<1> HIDE DEF q
<1>2. s * q \in Nat /\ s * m \in Nat
  BY <1>1
<1>3. q < m
  <2>1. SUFFICES ASSUME q >= m
                 PROVE  FALSE
    BY <1>1
  <2>2. PICK d \in Nat : q = m + d
    <3>1. q - m \in Nat /\ q = m + (q - m)
      BY <1>1, <2>1
    <3> QED
      BY <3>1
  <2>3. s * q = s * m + s * d /\ s * d \in Nat
    BY <1>1, <2>2
  <2> QED
    BY <1>1, <1>2, <2>3
<1>4. s * (q + 1) =< s * m
  <2>1. PICK d \in Nat : m = (q + 1) + d
    <3>1. m - (q + 1) \in Nat /\ m = (q + 1) + (m - (q + 1))
      BY <1>1, <1>3
    <3> QED
      BY <3>1
  <2>2. s * m = s * (q + 1) + s * d /\ s * d \in Nat /\ s * (q + 1) \in Nat
    BY <1>1, <2>1
  <2> QED
    BY <1>2, <2>2
<1>5. s * (q + 1) = s * q + s
  BY <1>1
<1> QED
  BY <1>1, <1>2, <1>4, <1>5

-----------------------------------------------------------------------------
(* Nets.                                                                   *)

\* A net covers its own address, and addresses of its family only.
LEMMA NetRange ==
  ASSUME NEW n \in Nets
  PROVE  /\ n.fam \in Families /\ n.addr \in Addrs(n.fam) /\ n.addr \in Nat
         /\ Size(n) \in Nat /\ Size(n) > 0
         /\ NetworkAddr(n) \in Nat /\ Broadcast(n) \in Nat
         /\ NetworkAddr(n) =< n.addr /\ n.addr =< Broadcast(n)
         /\ NetworkAddr(n)..Broadcast(n) \subseteq Addrs(n.fam)
<1>1. /\ n.fam \in Families /\ n.addr \in Addrs(n.fam) /\ n.len \in 0..Width[n.fam]
  BY DEF Nets
<1> DEFINE k == Width[n.fam]
           a == n.addr
           s == 2^(k - n.len)
           m == 2^n.len
<1>2. k \in Nat /\ k - n.len \in Nat /\ n.len \in Nat /\ (k - n.len) + n.len = k
  BY <1>1, WidthAssumption
<1>3. s \in Nat /\ s > 0 /\ m \in Nat /\ 2^k \in Nat /\ 2^k = s * m
  <2>1. s \in Nat /\ s > 0 /\ m \in Nat /\ 2^k \in Nat
    BY <1>2, Subsets
  <2>2. 2^((k - n.len) + n.len) = s * m
    BY <1>2, Powers
  <2> QED
    BY <1>2, <2>1, <2>2
<1>4. a \in Nat /\ a < s * m
  BY <1>1, <1>3 DEF Addrs
<1>5. Size(n) = s /\ NetworkAddr(n) = a - (a % s) /\ Broadcast(n) = (a - (a % s)) + s - 1
  BY DEF Size, NetworkAddr, Broadcast
<1> HIDE DEF k, a, s, m
<1>6. a % s \in 0..a /\ a % s < s /\ (a - (a % s)) + s =< s * m
  BY <1>3, <1>4, RoundedDown
<1>7. NetworkAddr(n)..Broadcast(n) \subseteq 0..2^k - 1
  BY <1>3, <1>4, <1>5, <1>6
<1>8. n.addr = a /\ Addrs(n.fam) = 0..2^k - 1
  BY DEF a, k, Addrs
<1> QED
  BY <1>1, <1>3, <1>4, <1>5, <1>6, <1>7, <1>8

\* A host is a net of one address.
LEMMA HostRange ==
  ASSUME NEW h \in Hosts
  PROVE  /\ h \in Nets /\ h = Host(h.fam, h.addr)
         /\ NetworkAddr(h) = h.addr /\ Broadcast(h) = h.addr
<1>0. PICK f \in Families : h \in {Host(f, x) : x \in Addrs(f)}
  BY DEF Hosts
<1>1. PICK a \in Addrs(f) : h = Host(f, a)
  BY <1>0
<1>2. Width[f] \in Nat /\ a \in Nat
  <2>1. Width[f] \in Nat
    BY WidthAssumption
  <2>2. 2^Width[f] \in Nat
    BY <2>1, Subsets
  <2> QED
    BY <2>1, <2>2 DEF Addrs
<1>3. h.fam = f /\ h.addr = a /\ h.len = Width[f] /\ h = [fam |-> f, addr |-> a, len |-> Width[f]]
  BY <1>1 DEF Host
<1>4. h \in Nets
  BY <1>2, <1>3 DEF Nets
<1>5. Size(h) = 1
  <2>1. Width[h.fam] - h.len = 0
    BY <1>2, <1>3
  <2>2. 2^0 = 1
    OBVIOUS
  <2> QED
    BY <2>1, <2>2 DEF Size
<1>6. a % 1 = 0
  BY <1>2
<1> QED
  BY <1>1, <1>2, <1>3, <1>4, <1>5, <1>6 DEF NetworkAddr, Broadcast

\* Two hosts overlap only if they are the same.
LEMMA HostsApart ==
  ASSUME NEW h \in Hosts, NEW g \in Hosts, Overlap(h, g)
  PROVE  h.fam = g.fam /\ h.addr = g.addr
<1>1. h.addr \in Nat /\ g.addr \in Nat
  BY HostRange, NetRange
<1> QED
  BY <1>1, HostRange DEF Overlap, Covers

-----------------------------------------------------------------------------
(* Allocated addresses.                                                    *)

Used(subnets, taken) == AddrsOf(taken) \cup Server(subnets)

\* What a list gives out before its i-th place.
Earlier(out, i) == {<<out[j].fam, out[j].addr>> : j \in 1..i - 1}

\* The i-th place of an assigned list: the lowest address of the i-th subnet
\* that is left.
Place(out, subnets, used, i) ==
  LET free == FreeHosts(subnets[i], used \cup Earlier(out, i)) IN
  /\ out[i].fam = subnets[i].fam
  /\ out[i].addr \in free /\ \A a \in free : out[i].addr =< a

LEMMA Places ==
  ASSUME NEW out, NEW subnets, NEW used
  PROVE  Assigned(out, subnets, used) <=> \A i \in DOMAIN subnets : Place(out, subnets, used, i)
BY DEF Assigned, Place, Earlier

\* No address is used or given out twice, and each is inside its subnet.
LEMMA PlaceFree ==
  ASSUME NEW subnets \in Blocks, NEW used, NEW out \in [DOMAIN subnets -> Hosts],
         NEW i \in DOMAIN subnets, Place(out, subnets, used, i)
  PROVE  /\ <<out[i].fam, out[i].addr>> \notin used
         /\ Covers(subnets[i], out[i].fam, out[i].addr)
<1>1. subnets[i] \in Nets
  BY DEF Blocks
<1>2. /\ out[i].fam = subnets[i].fam
      /\ out[i].addr \in FreeHosts(subnets[i], used \cup Earlier(out, i))
  BY DEF Place
<1> QED
  BY <1>1, <1>2, NetRange DEF FreeHosts, Covers

\* A list is assigned in one way only.
LEMMA AssignedOnce ==
  ASSUME NEW subnets \in Blocks, NEW used,
         NEW out \in [DOMAIN subnets -> Hosts], Assigned(out, subnets, used),
         NEW alt \in [DOMAIN subnets -> Hosts], Assigned(alt, subnets, used)
  PROVE  out = alt
<1> DEFINE Bad == {i \in DOMAIN subnets : out[i] # alt[i]}
<1>1. DOMAIN subnets = 1..Len(subnets) /\ Len(subnets) \in Nat
  BY DEF Blocks
<1> SUFFICES ASSUME Bad # {}
             PROVE  FALSE
  OBVIOUS
<1>2. PICK i \in Bad : \A j \in Bad : i =< j
  <2>1. Bad \in SUBSET Nat
    BY <1>1
  <2> HIDE DEF Bad
  <2> QED
    BY <2>1, Least
<1>3. \A j \in 1..i - 1 : j \in DOMAIN subnets /\ out[j] = alt[j]
  BY <1>1, <1>2
<1>4. Earlier(out, i) = Earlier(alt, i)
  BY <1>3 DEF Earlier
<1>5. /\ Place(out, subnets, used, i) /\ Place(alt, subnets, used, i)
      /\ out[i] \in Hosts /\ alt[i] \in Hosts
  BY Places
<1>6. out[i].addr \in Nat /\ alt[i].addr \in Nat
  BY <1>5, HostRange, NetRange
<1>7. out[i].fam = alt[i].fam /\ out[i].addr = alt[i].addr
  <2> DEFINE free == FreeHosts(subnets[i], used \cup Earlier(out, i))
  <2>1. /\ out[i].addr \in free /\ alt[i].addr \in free
        /\ \A a \in free : out[i].addr =< a /\ alt[i].addr =< a
        /\ out[i].fam = alt[i].fam
    BY <1>4, <1>5 DEF Place
  <2> HIDE DEF free
  <2>2. out[i].addr =< alt[i].addr /\ alt[i].addr =< out[i].addr
    BY <2>1
  <2> QED
    BY <1>6, <2>1, <2>2
<1>8. out[i] = alt[i]
  BY <1>5, <1>7, HostRange
<1> QED
  BY <1>8

\* What an allocation returns is assigned, or there is nothing to assign.
LEMMA Allocated ==
  ASSUME NEW subnets \in Blocks, NEW taken,
         AllocateAddresses(subnets, taken) # NoAddress
  PROVE  /\ AllocateAddresses(subnets, taken) \in [DOMAIN subnets -> Hosts]
         /\ Assigned(AllocateAddresses(subnets, taken), subnets, Used(subnets, taken))
BY DEF AllocateAddresses, Used

LEMMA AllocatedIs ==
  ASSUME NEW subnets \in Blocks, NEW taken,
         NEW out \in [DOMAIN subnets -> Hosts], Assigned(out, subnets, Used(subnets, taken))
  PROVE  AllocateAddresses(subnets, taken) = out
<1> DEFINE lists == {x \in [DOMAIN subnets -> Hosts] : Assigned(x, subnets, Used(subnets, taken))}
<1>1. AllocateAddresses(subnets, taken) = IF lists = {} THEN NoAddress ELSE CHOOSE x \in lists : TRUE
  BY DEF AllocateAddresses, Used
<1>2. AllocateAddresses(subnets, taken) \in lists
  BY <1>1
<1> QED
  BY <1>2, AssignedOnce

\* More taken addresses change nothing, if the list has none of them.
LEMMA AssignedStill ==
  ASSUME NEW subnets \in Blocks, NEW used, NEW more,
         NEW out \in [DOMAIN subnets -> Hosts], Assigned(out, subnets, used),
         \A i \in DOMAIN subnets : <<out[i].fam, out[i].addr>> \notin more
  PROVE  Assigned(out, subnets, used \cup more)
<1> SUFFICES ASSUME NEW i \in DOMAIN subnets
             PROVE  Place(out, subnets, used \cup more, i)
  BY Places
<1>1. Place(out, subnets, used, i)
  BY Places
<1>2. FreeHosts(subnets[i], (used \cup more) \cup Earlier(out, i))
        \subseteq FreeHosts(subnets[i], used \cup Earlier(out, i))
  BY DEF FreeHosts
<1>3. out[i].addr \in FreeHosts(subnets[i], (used \cup more) \cup Earlier(out, i))
  BY <1>1 DEF Place, FreeHosts
<1> QED
  BY <1>1, <1>2, <1>3 DEF Place

\* An allocation fails only at a subnet that is full: all before it got a host,
\* and between those and what is used no host of it is left.
THEOREM FailsWhenFull ==
  ASSUME NEW subnets \in Blocks, NEW taken, AllocateAddresses(subnets, taken) = NoAddress,
         subnets # << >>
  PROVE  \E i \in DOMAIN subnets : \E out \in [1..i - 1 -> Hosts] :
           /\ \A j \in 1..i - 1 : Place(out, subnets, Used(subnets, taken), j)
           /\ FreeHosts(subnets[i], Used(subnets, taken) \cup Earlier(out, i)) = {}
<1> DEFINE used == Used(subnets, taken)
           n    == Len(subnets)
           Fits(k, out) == out \in [1..k -> Hosts] /\ \A j \in 1..k : Place(out, subnets, used, j)
           Reach == {k \in Nat : k =< n => \E out : Fits(k, out)}
<1>1. DOMAIN subnets = 1..n /\ n \in Nat /\ n > 0
  BY DEF Blocks
<1> SUFFICES ASSUME \A i \in 1..n : \A out \in [1..i - 1 -> Hosts] :
                      (\A j \in 1..i - 1 : Place(out, subnets, used, j))
                      => FreeHosts(subnets[i], used \cup Earlier(out, i)) # {}
             PROVE  FALSE
  BY <1>1
<1> HIDE DEF used
<1>2. 0 \in Reach
  <2>1. Fits(0, << >>)
    OBVIOUS
  <2> QED
    BY <2>1
<1>3. ASSUME NEW k \in Nat, k \in Reach, k + 1 =< n
      PROVE  \E out : Fits(k + 1, out)
  <2>1. k =< n /\ k + 1 \in 1..n /\ (k + 1) - 1 = k
    BY <1>1, <1>3
  <2>2. PICK out : Fits(k, out)
    BY <1>3, <2>1
  <2> DEFINE net  == subnets[k + 1]
             free == FreeHosts(net, used \cup Earlier(out, k + 1))
  <2>3. net \in Nets
    BY <1>1, <2>1 DEF Blocks
  <2>4. free # {} /\ free \in SUBSET Addrs(net.fam) /\ free \in SUBSET Nat
    <3>1. free # {}
      BY <2>1, <2>2
    <3>2. NetworkAddr(net) \in Nat /\ Broadcast(net) \in Nat
          /\ NetworkAddr(net)..Broadcast(net) \subseteq Addrs(net.fam)
      BY <2>3, NetRange
    <3> HIDE DEF net
    <3> QED
      BY <3>1, <3>2 DEF FreeHosts
  <2>5. PICK a \in free : \A b \in free : a =< b
    <3> HIDE DEF free
    <3> QED
      BY <2>4, Least
  <2>6. Host(net.fam, a) \in Hosts
    <3>1. net.fam \in Families /\ a \in Addrs(net.fam)
      BY <2>3, <2>4, NetRange
    <3> HIDE DEF net
    <3> QED
      BY <3>1 DEF Hosts
  <2> DEFINE more == [j \in 1..k + 1 |-> IF j = k + 1 THEN Host(net.fam, a) ELSE out[j]]
  <2>7. more \in [1..k + 1 -> Hosts]
    BY <2>2, <2>6
  <2>8. \A j \in 1..k : more[j] = out[j] /\ Earlier(more, j) = Earlier(out, j)
    BY DEF Earlier
  <2>9. Earlier(more, k + 1) = Earlier(out, k + 1)
    <3>1. 1..(k + 1) - 1 = 1..k
      OBVIOUS
    <3> HIDE DEF more
    <3> QED
      BY <2>8, <3>1 DEF Earlier
  <2>10. ASSUME NEW j \in 1..k + 1
         PROVE  Place(more, subnets, used, j)
    <3>1. CASE j = k + 1
      <4>1. more[j].fam = net.fam /\ more[j].addr = a
        BY <3>1 DEF Host
      <4> HIDE DEF more
      <4> QED
        BY <2>5, <2>9, <3>1, <4>1 DEF Place
    <3>2. CASE j # k + 1
      <4>1. j \in 1..k
        BY <3>2
      <4>2. Place(out, subnets, used, j)
        BY <2>2, <4>1
      <4> HIDE DEF more
      <4> QED
        BY <2>8, <4>1, <4>2 DEF Place
    <3> QED
      BY <3>1, <3>2
  <2> HIDE DEF more
  <2> QED
    BY <2>7, <2>10
<1>4. Nat \subseteq Reach
  <2>1. \A k \in Nat : k \in Reach => k + 1 \in Reach
    BY <1>3
  <2> HIDE DEF Reach
  <2> QED
    BY <1>2, <2>1, Induct
<1>5. PICK out : Fits(n, out)
  BY <1>1, <1>4
<1>6. out \in [DOMAIN subnets -> Hosts] /\ Assigned(out, subnets, used)
  BY <1>1, <1>5, Places
<1>7. AllocateAddresses(subnets, taken) = out
  BY <1>6, AllocatedIs DEF used
<1>8. DOMAIN out # DOMAIN NoAddress
  BY <1>1, <1>6 DEF NoAddress
<1> QED
  BY <1>7, <1>8

-----------------------------------------------------------------------------
(* Allocated subnets.                                                      *)

\* Such a block is a net of its subnet's family, with no host bits.
LEMMA BlocksAreNets ==
  ASSUME NEW n \in Nets, NEW taken, NEW len \in Nat, NEW b \in FreeBlocks(n, taken, len)
  PROVE  /\ b \in Nets /\ b.fam = n.fam /\ b.len = len /\ n.len =< len
         /\ b.addr \in NetworkAddr(n)..Broadcast(n) /\ b.addr = NetworkAddr(b)
<1>1. b \in SubnetsOf(n, len)
  BY DEF FreeBlocks
<1>2. /\ len \in n.len..Width[n.fam] /\ n.fam \in Families
      /\ b \in [fam : {n.fam}, addr : NetworkAddr(n)..Broadcast(n), len : {len}]
      /\ b.addr = NetworkAddr(b)
  BY <1>1, NetRange DEF SubnetsOf
<1>3. b.addr \in Addrs(n.fam)
  BY <1>2, NetRange
<1>4. len \in 0..Width[n.fam] /\ n.len =< len
  BY <1>2, WidthAssumption DEF Nets
<1>5. b \in [fam : {n.fam}, addr : Addrs(n.fam), len : 0..Width[n.fam]]
  BY <1>2, <1>3, <1>4
<1> QED
  BY <1>2, <1>4, <1>5 DEF Nets

\* allocate_subnet returns one block, free in one of the subnets; and it fails
\* only if none has a free one.
THEOREM SubnetAllocated ==
  ASSUME NEW subnets \in Blocks, NEW taken, NEW len \in Nat
  PROVE  \/ /\ AllocateSubnet(subnets, taken, len) = NoAddress
            /\ \A i \in DOMAIN subnets : FreeBlocks(subnets[i], taken, len) = {}
         \/ \E i \in DOMAIN subnets : \E b \in FreeBlocks(subnets[i], taken, len) :
              AllocateSubnet(subnets, taken, len) = << b >>
<1> DEFINE fitting == {i \in DOMAIN subnets : FreeBlocks(subnets[i], taken, len) # {}}
           blocks  == FreeBlocks(subnets[Lowest(fitting)], taken, len)
<1>1. AllocateSubnet(subnets, taken, len) =
        IF fitting = {} THEN NoAddress
        ELSE << CHOOSE b \in blocks : \A c \in blocks : b.addr =< c.addr >>
  BY DEF AllocateSubnet
<1>2. CASE fitting = {}
  BY <1>1, <1>2
<1>3. CASE fitting # {}
  <2>1. Lowest(fitting) \in fitting
    <3>1. fitting \in SUBSET Nat
      BY DEF Blocks
    <3> HIDE DEF fitting
    <3>2. \E i \in fitting : \A j \in fitting : i =< j
      BY <1>3, <3>1, Least
    <3> QED
      BY <3>2 DEF Lowest
  <2> DEFINE i == Lowest(fitting)
  <2>2. i \in DOMAIN subnets /\ subnets[i] \in Nets /\ blocks # {}
    <3>1. \A j \in fitting : /\ j \in DOMAIN subnets /\ subnets[j] \in Nets
                             /\ FreeBlocks(subnets[j], taken, len) # {}
      BY DEF Blocks
    <3> HIDE DEF fitting
    <3> QED
      BY <2>1, <3>1
  <2> HIDE DEF fitting, i
  <2>3. \E b \in blocks : \A c \in blocks : b.addr =< c.addr
    <3> DEFINE S == {b.addr : b \in blocks}
    <3>1. S \in SUBSET Nat /\ S # {}
      <4>1. \A b \in blocks : b.addr \in Nat
        BY <2>2, BlocksAreNets, NetRange DEF i
      <4> QED
        BY <2>2, <4>1
    <3>2. PICK m \in S : \A k \in S : m =< k
      <4> HIDE DEF S
      <4> QED
        BY <3>1, Least
    <3> QED
      BY <3>2
  <2>4. (CHOOSE b \in blocks : \A c \in blocks : b.addr =< c.addr) \in blocks
    BY <2>3
  <2> QED
    BY <1>1, <1>3, <2>2, <2>4 DEF i
<1> QED
  BY <1>2, <1>3
=============================================================================
