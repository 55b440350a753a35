---------------------------- MODULE IpAllocProofs -----------------------------
(***************************************************************************)
(* The allocation loop computes nextFreeIp for every configured subnet,    *)
(* server address and set of used addresses, whatever their size.  The     *)
(* second half is about the lists of blocks: aggregateCidrs and            *)
(* excludeIpFromCidrs return the fewest blocks that cover what they should,*)
(* for every list and every width of an address.                           *)
(***************************************************************************)
EXTENDS RouteLists, IpPoolProofs, SequenceTheorems

LEMMA InitLoopInv == LoopInit => LoopInv
<1> SUFFICES ASSUME LoopInit PROVE LoopInv
  OBVIOUS
<1>1. subnet \in [network : Nat, broadcast : Nat]
  BY PoolsAssumption DEF LoopInit
<1> QED
  BY <1>1 DEF LoopInit, LoopInv, LoopTypeOK, PassedAreUsed, LoopCorrect, Results,
              Running, IsUsed

LEMMA StepLoopInv == LoopInv /\ [LoopNext]_loopVars => LoopInv'
<1> SUFFICES ASSUME LoopInv, [LoopNext]_loopVars PROVE LoopInv'
  OBVIOUS
<1> DEFINE free == FreeAddresses(subnet, serverAddress, usedIps)
           r    == nextFreeIp(subnet, serverAddress, usedIps)
<1>1. /\ subnet \in [network : Nat, broadcast : Nat]
      /\ candidate \in Nat
      /\ subnet.network < candidate
      /\ \A a \in subnet.network + 1 .. candidate - 1 : IsUsed(a)
  BY PoolsAssumption DEF LoopInv, LoopTypeOK, PassedAreUsed
<1>2. \A a \in HostAddresses(subnet) :
        /\ a \in Nat /\ subnet.network < a /\ a < subnet.broadcast
        /\ a \in free <=> ~IsUsed(a)
  BY <1>1 DEF HostAddresses, FreeAddresses, IsUsed
<1>3. free \subseteq HostAddresses(subnet)
  BY DEF FreeAddresses
<1>4. \/ r = Exhausted /\ free = {}
      \/ r \in free /\ \A b \in free : r <= b
  BY <1>1, NextFreeIpCorrect
<1>5. CASE Skip
  <2>1. \A a \in subnet.network + 1 .. candidate : IsUsed(a)
    BY <1>1, <1>5 DEF Skip
  <2>2. candidate' = candidate + 1 /\ result' = Running
    BY <1>5 DEF Skip, InLoop
  <2>3. PassedAreUsed'
    BY <1>1, <1>5, <2>1, <2>2 DEF Skip, PassedAreUsed, IsUsed
  <2> QED
    BY <1>1, <1>5, <2>2, <2>3
       DEF Skip, LoopInv, LoopTypeOK, LoopCorrect, Results
<1>6. CASE Return
  <2>1. candidate \in HostAddresses(subnet) /\ ~IsUsed(candidate)
    BY <1>1, <1>6 DEF Return, InLoop, HostAddresses
  <2>2. candidate \in free
    BY <1>2, <2>1
  <2>3. \A b \in free : candidate <= b
    <3> SUFFICES ASSUME NEW b \in free, b < candidate  PROVE FALSE
      BY <1>1, <1>2, <1>3
    <3> QED  BY <1>1, <1>2, <1>3
  <2>4. r = candidate
    <3> HIDE DEF free, r
    <3>1. r \in free /\ r \in Nat /\ r <= candidate
      BY <1>2, <1>3, <1>4, <2>2
    <3> QED  BY <1>1, <2>3, <3>1
  <2>5. LoopCorrect'
    BY <1>6, <2>4 DEF Return, LoopCorrect
  <2> QED
    BY <1>6, <2>1, <2>5 DEF Return, LoopInv, LoopTypeOK, PassedAreUsed, Results, IsUsed
<1>7. CASE Throw
  <2>1. free = {}
    BY <1>1, <1>2, <1>3, <1>7 DEF Throw
  <2>2. r = Exhausted
    BY <2>1 DEF nextFreeIp
  <2> QED
    BY <1>7, <2>2 DEF Throw, LoopInv, LoopTypeOK, PassedAreUsed, LoopCorrect, Results,
                      IsUsed
<1>8. CASE UNCHANGED loopVars
  BY <1>8 DEF loopVars, LoopInv, LoopTypeOK, PassedAreUsed, LoopCorrect, Results, IsUsed
<1> QED  BY <1>5, <1>6, <1>7, <1>8 DEF LoopNext

(* The allocation loop never returns anything but the first free address,  *)
(* nor throws while one is free.                                           *)
THEOREM LoopComputesNextFreeIp == LoopSpec => []LoopCorrect
<1>1. LoopInv => LoopCorrect
  BY DEF LoopInv
<1> QED  BY InitLoopInv, StepLoopInv, <1>1, PTL DEF LoopSpec

(* What poolCapacity counts: the host addresses but the server's own.      *)
LEMMA CapacityCounts ==
  ASSUME NEW pool \in [network : Nat, broadcast : Nat], NEW server \in HostAddresses(pool)
  PROVE  /\ IsFiniteSet(HostAddresses(pool) \ {server})
         /\ poolCapacity(pool) = Cardinality(HostAddresses(pool) \ {server})
<1> DEFINE hosts == HostAddresses(pool)
           rest  == pool.broadcast - pool.network - 2
<1>1. rest \in Nat
  BY DEF HostAddresses
<1>2. IsFiniteSet(hosts) /\ Cardinality(hosts) = rest + 1 /\ server \in hosts
  BY <1>1, FS_Interval DEF HostAddresses
<1>3. IsFiniteSet(hosts \ {server}) /\ Cardinality(hosts \ {server}) = rest
  <2> HIDE DEF hosts, rest
  <2> QED  BY <1>1, <1>2, FS_RemoveElement
<1>4. poolCapacity(pool) = Max({0, rest})
  BY DEF poolCapacity
<1>5. Max({0, rest}) = rest
  <2> HIDE DEF rest
  <2> QED  BY <1>1 DEF Max
<1> QED  BY <1>3, <1>4, <1>5

(* nextFreeIp throws exactly when as many addresses are leased as          *)
(* poolCapacity says: a server is neither full early nor over-booked.      *)
THEOREM CapacityIsExact == LoopSpec => []CapacityExact
<1>1. LoopInv => CapacityExact
  <2> DEFINE hosts  == HostAddresses(subnet)
             leased == (usedIps \cap hosts) \ {serverAddress}
             others == hosts \ {serverAddress}
             free   == FreeAddresses(subnet, serverAddress, usedIps)
  <2> SUFFICES ASSUME LoopInv, result # Running, serverAddress \in hosts
               PROVE  (result = Exhausted) = (Cardinality(leased) = poolCapacity(subnet))
    BY DEF CapacityExact
  <2>1. subnet \in [network : Nat, broadcast : Nat]
    BY PoolsAssumption DEF LoopInv, LoopTypeOK
  <2>2. result = Exhausted <=> free = {}
    <3>1. result = nextFreeIp(subnet, serverAddress, usedIps)
      BY DEF LoopInv, LoopCorrect
    <3>2. \/ result = Exhausted /\ free = {}
          \/ result \in free
      BY <2>1, <3>1, NextFreeIpCorrect
    <3>3. Exhausted \notin free
      BY <2>1 DEF FreeAddresses, HostAddresses, Exhausted
    <3> QED  BY <3>2, <3>3
  <2>3. free = {} <=> leased = others
    BY DEF FreeAddresses
  <2>4. IsFiniteSet(others) /\ poolCapacity(subnet) = Cardinality(others)
    BY <2>1, CapacityCounts
  <2>5. leased \in SUBSET others
    OBVIOUS
  <2>6. leased = others <=> Cardinality(leased) = Cardinality(others)
    <3> HIDE DEF leased, others
    <3> QED  BY <2>4, <2>5, FS_Subset
  <2> HIDE DEF leased, others, free
  <2> QED  BY <2>2, <2>3, <2>4, <2>6
<1> QED  BY InitLoopInv, StepLoopInv, <1>1, PTL DEF LoopSpec

-------------------------------------------------------------------------------
(* Arithmetic: powers of two and what they divide.                         *)

(* 2^n counts the subsets of 1 .. n, and the sets with n + 1 are those     *)
(* without it and as many again.                                           *)
LEMMA PowerCounts ==
  ASSUME NEW n \in Nat
  PROVE  /\ IsFiniteSet(SUBSET (1 .. n)) /\ Cardinality(SUBSET (1 .. n)) = 2^n
         /\ 2^n \in Nat \ {0}
<1>1. IsFiniteSet(1 .. n) /\ Cardinality(1 .. n) = n
  BY FS_Interval
<1>2. IsFiniteSet(SUBSET (1 .. n)) /\ Cardinality(SUBSET (1 .. n)) = 2^n
  BY <1>1, FS_SUBSET
<1>3. Cardinality(SUBSET (1 .. n)) \in Nat
  BY <1>2, FS_CardinalityType
<1>4. Cardinality(SUBSET (1 .. n)) # 0
  <2>1. {} \in SUBSET (1 .. n)
    OBVIOUS
  <2> QED BY <1>2, <2>1, FS_EmptySet
<1> QED BY <1>2, <1>3, <1>4

LEMMA PowerDoubles ==
  ASSUME NEW n \in Nat
  PROVE  2^(n + 1) = 2^n + 2^n
<1> DEFINE S == SUBSET (1 .. n)
           T == {A \cup {n + 1} : A \in S}
           f == [A \in S |-> A \cup {n + 1}]
<1>1. SUBSET (1 .. (n + 1)) = S \cup T
  <2>1. ASSUME NEW A \in SUBSET (1 .. (n + 1)) PROVE A \in S \cup T
    <3>1. CASE n + 1 \notin A
      BY <3>1
    <3>2. CASE n + 1 \in A
      <4>1. A \ {n + 1} \in S /\ A = (A \ {n + 1}) \cup {n + 1}
        BY <3>2
      <4> QED BY <4>1
    <3> QED BY <3>1, <3>2
  <2>2. ASSUME NEW A \in S PROVE A \in SUBSET (1 .. (n + 1)) /\ A \cup {n + 1} \in SUBSET (1 .. (n + 1))
    OBVIOUS
  <2>3. \A B \in T : \E A \in S : B = A \cup {n + 1}
    OBVIOUS
  <2> HIDE DEF S, T
  <2>4. S \cup T \subseteq SUBSET (1 .. (n + 1))
    BY <2>2, <2>3
  <2> QED BY <2>1, <2>4
<1>2. f \in Bijection(S, T)
  <2>1. ASSUME NEW A \in S, NEW B \in S, f[A] = f[B] PROVE A = B
    <3>1. n + 1 \notin A /\ n + 1 \notin B
      OBVIOUS
    <3>2. A \cup {n + 1} = B \cup {n + 1}
      BY <2>1
    <3> QED BY <3>1, <3>2
  <2>2. f \in [S -> T] /\ \A t \in T : \E A \in S : f[A] = t
    OBVIOUS
  <2> HIDE DEF f, T, S
  <2> QED BY <2>1, <2>2 DEF Bijection, Injection, Surjection, IsInjective
<1>3. S \cap T = {}
  <2>1. \A A \in S : n + 1 \notin A
    OBVIOUS
  <2> QED BY <2>1
<1>4. IsFiniteSet(S) /\ Cardinality(S) = 2^n /\ Cardinality(SUBSET (1 .. (n + 1))) = 2^(n + 1)
  BY PowerCounts
<1> HIDE DEF S, T, f
<1>5. IsFiniteSet(T) /\ Cardinality(T) = Cardinality(S)
  BY <1>2, <1>4, FS_Bijection DEF ExistsBijection
<1>6. Cardinality(S \cup T) = Cardinality(S) + Cardinality(T)
  <2>1. Cardinality(S \cup T) = Cardinality(S) + Cardinality(T) - Cardinality(S \cap T)
    BY <1>4, <1>5, FS_Union
  <2>2. Cardinality(S) \in Nat /\ Cardinality(S \cap T) = 0
    BY <1>3, <1>4, FS_EmptySet, PowerCounts
  <2> QED BY <1>5, <2>1, <2>2
<1> QED BY <1>1, <1>4, <1>5, <1>6

(* Multiples of m are what leaves no remainder; sums of them, and two of   *)
(* them less than m apart.                                                 *)
LEMMA MultipleIsMod ==
  ASSUME NEW m \in Nat \ {0}, NEW q \in Nat
  PROVE  (q * m) % m = 0
OBVIOUS

LEMMA ModIsMultiple ==
  ASSUME NEW m \in Nat \ {0}, NEW x \in Nat, x % m = 0
  PROVE  \E q \in Nat : x = q * m
<1>1. x = m * (x \div m) + (x % m)
  OBVIOUS
<1>2. x \div m \in Nat
  OBVIOUS
<1> QED BY <1>1, <1>2

LEMMA ModSum ==
  ASSUME NEW m \in Nat \ {0}, NEW x \in Nat, NEW y \in Nat, x % m = 0, y % m = 0
  PROVE  (x + y) % m = 0
<1>1. PICK p \in Nat, q \in Nat : x = p * m /\ y = q * m
  <2>1. \E p \in Nat : x = p * m
    BY ModIsMultiple, Zenon
  <2>2. \E q \in Nat : y = q * m
    BY ModIsMultiple, Zenon
  <2> QED BY <2>1, <2>2, Zenon
<1>2. x + y = (p + q) * m /\ p + q \in Nat
  BY <1>1
<1> QED BY <1>2, MultipleIsMod

LEMMA ModApart ==
  ASSUME NEW m \in Nat \ {0}, NEW x \in Nat, NEW y \in Nat, x % m = 0, y % m = 0,
         x <= y, y < x + m
  PROVE  x = y
<1>1. PICK p \in Nat, q \in Nat : x = p * m /\ y = q * m
  <2>1. \E p \in Nat : x = p * m
    BY ModIsMultiple, Zenon
  <2>2. \E q \in Nat : y = q * m
    BY ModIsMultiple, Zenon
  <2> QED BY <2>1, <2>2, Zenon
<1>2. ASSUME NEW i \in Nat, NEW j \in Nat, i < j
      PROVE  i * m + m <= j * m
  <2> DEFINE d == j - i - 1
  <2>1. d \in Nat /\ j = i + 1 + d
    BY <1>2
  <2> HIDE DEF d
  <2>2. j * m = i * m + m + d * m /\ d * m \in Nat /\ i * m \in Nat
    BY <2>1
  <2> DEFINE im == i * m
             dm == d * m
  <2> HIDE DEF im, dm
  <2>3. j * m = im + m + dm /\ dm \in Nat /\ im \in Nat
    BY <2>2 DEF im, dm
  <2>4. im + m <= j * m
    BY <2>3
  <2> QED BY <2>4 DEF im
<1>3. ~(p < q)
  BY <1>1, <1>2
<1>4. ~(q < p)
  BY <1>1, <1>2
<1> QED BY <1>1, <1>3, <1>4

(* Induction, for a set.                                                   *)
LEMMA CountingUp ==
  ASSUME NEW S, 0 \in S, \A n \in Nat : n \in S => n + 1 \in S
  PROVE  Nat \subseteq S
<1> DEFINE T == Nat \ S
<1> SUFFICES ASSUME T # {} PROVE FALSE
  OBVIOUS
<1>1. PICK m \in T : \A n \in T : m <= n
  <2> HIDE DEF T
  <2>1. T \in SUBSET Nat
    BY DEF T
  <2> QED BY <2>1, NonemptyHasMin
<1>2. m \in Nat /\ m # 0 /\ m - 1 \in Nat
  BY <1>1
<1>3. m - 1 \in S
  BY <1>1, <1>2
<1>4. (m - 1) + 1 \in S
  BY <1>2, <1>3
<1> QED BY <1>1, <1>2, <1>4

(* The powers of two grow, and the larger are multiples of the smaller.    *)
LEMMA PowersDivide ==
  ASSUME NEW s \in Nat, NEW t \in Nat, s <= t
  PROVE  2^t % 2^s = 0 /\ 2^s <= 2^t
<1> DEFINE S == {n \in Nat : 2^(s + n) % 2^s = 0 /\ 2^s <= 2^(s + n)}
<1>1. 0 \in S
  <2>1. 2^s \in Nat \ {0} /\ s + 0 = s
    <3>1. 2^s \in Nat \ {0}
      BY PowerCounts
    <3> QED BY <3>1
  <2>2. (1 * 2^s) % 2^s = 0
    BY <2>1, MultipleIsMod
  <2> QED BY <2>1, <2>2
<1>2. ASSUME NEW n \in Nat, n \in S PROVE n + 1 \in S
  <2>1. /\ s + (n + 1) = (s + n) + 1 /\ s + n \in Nat
        /\ 2^s \in Nat \ {0} /\ 2^(s + n) \in Nat \ {0}
    <3>1. s + (n + 1) = (s + n) + 1 /\ s + n \in Nat
      OBVIOUS
    <3> QED BY <3>1, PowerCounts
  <2>2. 2^(s + (n + 1)) = 2^(s + n) + 2^(s + n)
    BY <2>1, PowerDoubles
  <2>3. (2^(s + n) + 2^(s + n)) % 2^s = 0
    BY <1>2, <2>1, ModSum
  <2> QED BY <1>2, <2>1, <2>2, <2>3
<1>3. t - s \in S
  <2> HIDE DEF S
  <2> QED BY <1>1, <1>2, CountingUp
<1> QED BY <1>3

LEMMA ModOfPower ==
  ASSUME NEW s \in Nat, NEW t \in Nat, s <= t, NEW x \in Nat, x % 2^t = 0
  PROVE  x % 2^s = 0
<1>1. 2^s \in Nat \ {0} /\ 2^t \in Nat \ {0} /\ 2^t % 2^s = 0
  BY PowerCounts, PowersDivide
<1>2. PICK q \in Nat, p \in Nat : x = q * 2^t /\ 2^t = p * 2^s
  BY <1>1, ModIsMultiple
<1>3. x = (q * p) * 2^s /\ q * p \in Nat
  BY <1>1, <1>2
<1> QED BY <1>1, <1>3, MultipleIsMod

-------------------------------------------------------------------------------
(* Blocks: what parseCidr can make, and that two of them nest or are apart.*)

(* What Max is, for a bounded set of numbers.                              *)
LEMMA BoundedHasMax ==
  ASSUME NEW S \in SUBSET Nat, S # {}, NEW k \in Nat, \A n \in S : n <= k
  PROVE  Max(S) \in S /\ \A n \in S : n <= Max(S)
<1> DEFINE T == {k - n : n \in S}
<1>1. T \in SUBSET Nat /\ T # {}
  OBVIOUS
<1>2. PICK m \in T : \A n \in T : m <= n
  <2> HIDE DEF T
  <2> QED BY <1>1, NonemptyHasMin
<1>3. PICK x \in S : m = k - x
  BY <1>2
<1>4. \A n \in S : k - n \in T
  OBVIOUS
<1>5. \A n \in S : x >= n
  BY <1>2, <1>3, <1>4
<1> HIDE DEF T
<1>6. Max(S) \in S /\ \A n \in S : Max(S) >= n
  BY <1>5 DEF Max
<1> QED BY <1>6

LEMMA PowerZero == 2^0 = 1
<1>1. SUBSET (1 .. 0) = {{}}
  OBVIOUS
<1>2. Cardinality({{}}) = 1
  BY FS_Singleton
<1>3. Cardinality(SUBSET (1 .. 0)) = 2^0
  BY PowerCounts
<1> QED BY <1>1, <1>2, <1>3

(* The sizes of the address space and of a block.                          *)
LEMMA SpaceSize == 2^AddressBits \in Nat \ {0} /\ Addresses \subseteq Nat
<1>1. AddressBits \in Nat
  BY AddressBitsAssumption
<1>2. 2^AddressBits \in Nat \ {0}
  BY <1>1, PowerCounts
<1> QED BY <1>2 DEF Addresses

LEMMA SizeOf ==
  ASSUME NEW s \in 0 .. AddressBits
  PROVE  s \in Nat /\ 2^s \in Nat \ {0}
<1>1. s \in Nat
  BY AddressBitsAssumption
<1> QED BY <1>1, PowerCounts

(* An aligned block that starts in the address space ends in it.           *)
LEMMA BlockFits ==
  ASSUME NEW x \in Addresses, NEW s \in 0 .. AddressBits, x % 2^s = 0
  PROVE  x + 2^s <= 2^AddressBits
<1> DEFINE N == 2^AddressBits
<1>1. N \in Nat \ {0} /\ x \in Nat /\ x < N
  BY SpaceSize DEF Addresses
<1>2. s \in Nat /\ 2^s \in Nat \ {0} /\ s <= AddressBits /\ AddressBits \in Nat
  BY SizeOf, AddressBitsAssumption
<1>3. N % 2^s = 0
  BY <1>2, PowersDivide
<1>4. ASSUME N < x + 2^s PROVE FALSE
  <2> DEFINE m == 2^s
  <2>1. m \in Nat \ {0} /\ x % m = 0 /\ N % m = 0 /\ x <= N /\ N < x + m
    BY <1>1, <1>2, <1>3, <1>4
  <2> HIDE DEF m, N
  <2>2. x = N
    BY <1>1, <2>1, ModApart
  <2> QED BY <1>1, <2>2
<1> HIDE DEF N
<1>5. x + 2^s <= N
  BY <1>1, <1>2, <1>4
<1> QED BY <1>5 DEF N

(* Clearing the host bits of an address.                                   *)
LEMMA AlignDown ==
  ASSUME NEW m \in Nat \ {0}, NEW a \in Nat
  PROVE  /\ a - (a % m) \in Nat /\ (a - (a % m)) % m = 0
         /\ a - (a % m) <= a /\ a < a - (a % m) + m
<1>1. a = m * (a \div m) + (a % m) /\ a \div m \in Nat /\ a % m \in 0 .. m - 1
  OBVIOUS
<1>2. a - (a % m) = (a \div m) * m
  BY <1>1
<1>3. (a - (a % m)) % m = 0
  BY <1>1, <1>2, MultipleIsMod
<1>4. a - (a % m) <= a /\ a < a - (a % m) + m
  BY <1>1
<1>5. a - (a % m) \in Nat
  <2> DEFINE k == a \div m
  <2>1. k * m \in Nat
    BY <1>1
  <2> QED BY <1>2, <2>1
<1> QED BY <1>3, <1>4, <1>5

(* A block is given by an aligned address and a size.                      *)
LEMMA BlocksAre ==
  ASSUME NEW b
  PROVE  b \in Blocks <=>
           \E x \in Addresses, s \in 0 .. AddressBits : x % 2^s = 0 /\ b = Block(x, s)
<1>1. ASSUME b \in Blocks
      PROVE  \E x \in Addresses, s \in 0 .. AddressBits : x % 2^s = 0 /\ b = Block(x, s)
  <2>1. PICK a \in Addresses, prefix \in 0 .. AddressBits : b = parseCidr(a, prefix)
    BY <1>1 DEF Blocks
  <2> DEFINE s == AddressBits - prefix
             x == a - (a % 2^s)
  <2>2. s \in 0 .. AddressBits
    BY AddressBitsAssumption
  <2>3. b = Block(x, s)
    BY <2>1 DEF parseCidr, Block
  <2> HIDE DEF s
  <2>4. 2^s \in Nat \ {0} /\ a \in Nat
    BY <2>2, SizeOf, SpaceSize
  <2>5. x \in Nat /\ x % 2^s = 0 /\ x <= a
    BY <2>4, AlignDown
  <2> HIDE DEF x
  <2>6. x \in Addresses
    BY <2>5, SpaceSize DEF Addresses
  <2> QED BY <2>2, <2>3, <2>5, <2>6
<1>2. ASSUME NEW x \in Addresses, NEW s \in 0 .. AddressBits, x % 2^s = 0, b = Block(x, s)
      PROVE  b \in Blocks
  <2> DEFINE prefix == AddressBits - s
  <2>1. prefix \in 0 .. AddressBits /\ AddressBits - prefix = s /\ x \in Nat /\ 2^s \in Nat
    BY AddressBitsAssumption, SizeOf, SpaceSize
  <2> HIDE DEF prefix
  <2>2. x - (x % 2^s) = x
    BY <1>2, <2>1
  <2>3. parseCidr(x, prefix) = b
    BY <1>2, <2>1, <2>2 DEF parseCidr, Block
  <2> QED BY <2>1, <2>3 DEF Blocks
<1> QED BY <1>1, <1>2

(* The bounds of a block.                                                  *)
LEMMA BlockShape ==
  ASSUME NEW b \in Blocks
  PROVE  \E s \in 0 .. AddressBits :
           /\ b = Block(b.network, s) /\ b.network % 2^s = 0
           /\ s \in Nat /\ 2^s \in Nat \ {0}
           /\ b.network \in Nat /\ b.broadcast \in Nat
           /\ b.broadcast + 1 = b.network + 2^s
           /\ b.network <= b.broadcast /\ b.broadcast < 2^AddressBits
           /\ b.network \in Addresses /\ b.broadcast \in Addresses
<1>1. PICK x \in Addresses, s \in 0 .. AddressBits : x % 2^s = 0 /\ b = Block(x, s)
  BY BlocksAre
<1>2. x + 2^s <= 2^AddressBits /\ 2^AddressBits \in Nat
  BY <1>1, BlockFits, SpaceSize
<1>3. x \in Nat /\ s \in Nat /\ 2^s \in Nat \ {0}
  BY SizeOf, SpaceSize
<1>4. b.network = x /\ b.broadcast = x + 2^s - 1
  BY <1>1 DEF Block
<1>5. b.broadcast \in Addresses
  BY <1>2, <1>3, <1>4 DEF Addresses
<1> QED BY <1>1, <1>2, <1>3, <1>4, <1>5

LEMMA SameSpan ==
  ASSUME NEW b \in Blocks, NEW c \in Blocks, b.network = c.network, b.broadcast = c.broadcast
  PROVE  b = c
<1>1. \A d \in Blocks : d = [network |-> d.network, broadcast |-> d.broadcast]
  BY BlocksAre DEF Block
<1> QED BY <1>1

(* Two blocks are apart or one is inside the other.                        *)
LEMMA BlocksNest ==
  ASSUME NEW b \in Blocks, NEW c \in Blocks,
         b.network < c.network, c.network <= b.broadcast
  PROVE  c.broadcast <= b.broadcast
<1>1. PICK s \in 0 .. AddressBits :
        /\ b.network % 2^s = 0 /\ s \in Nat /\ 2^s \in Nat \ {0} /\ b.network \in Nat
        /\ b.broadcast \in Nat /\ b.broadcast + 1 = b.network + 2^s
  BY BlockShape
<1>2. PICK t \in 0 .. AddressBits :
        /\ c.network % 2^t = 0 /\ t \in Nat /\ 2^t \in Nat \ {0} /\ c.network \in Nat
        /\ c.broadcast \in Nat /\ c.broadcast + 1 = c.network + 2^t
  BY BlockShape
<1> DEFINE x == b.network
           y == c.network
           m == 2^s
           n == 2^t
<1>3. CASE t <= s
  <2>1. x % n = 0 /\ m % n = 0
    BY <1>1, <1>2, <1>3, ModOfPower, PowersDivide
  <2>2. (x + m) % n = 0
    BY <1>1, <1>2, <2>1, ModSum
  <2>3. y % n = 0 /\ y < x + m /\ n \in Nat \ {0} /\ y \in Nat /\ x + m \in Nat
    BY <1>1, <1>2
  <2>4. ~(x + m < y + n)
    <3> HIDE DEF n, x, m, y
    <3>1. x + m < y + n => y = x + m
      BY <2>2, <2>3, ModApart
    <3> QED BY <2>3, <3>1
  <2> QED BY <1>1, <1>2, <2>4
<1>4. CASE s < t
  <2>1. y % m = 0
    BY <1>1, <1>2, <1>4, ModOfPower
  <2>2. x <= y /\ y < x + m /\ x % m = 0
    BY <1>1, <1>2
  <2>3. x = y
    BY <1>1, <1>2, <2>1, <2>2, ModApart
  <2> QED BY <1>1, <1>2, <2>3
<1> QED BY <1>1, <1>2, <1>3, <1>4

-------------------------------------------------------------------------------
(* Lists: the concatenation of lists without a common element.             *)

(* Two lists, one after the other; one of them of a single element; many.  *)
LEMMA ListOfTwo ==
  ASSUME NEW S, NEW k \in Seq(S), NEW l \in Seq(S), IsInjective(k), IsInjective(l),
         ToSet(k) \cap ToSet(l) = {}
  PROVE  k \o l \in Seq(S) /\ ToSet(k \o l) = ToSet(k) \cup ToSet(l) /\ IsInjective(k \o l)
<1> DEFINE j == k \o l
           m == Len(k)
           n == Len(l)
<1>1. /\ m \in Nat /\ n \in Nat /\ DOMAIN k = 1 .. m /\ DOMAIN l = 1 .. n
      /\ j \in Seq(S) /\ DOMAIN j = 1 .. m + n
  OBVIOUS
<1>2. /\ \A i \in 1 .. m : j[i] = k[i]
      /\ \A i \in m + 1 .. m + n : j[i] = l[i - m]
  OBVIOUS
<1> HIDE DEF j, m, n
<1>3. /\ \A i \in 1 .. m + n : i \in 1 .. m \/ (i \in m + 1 .. m + n /\ i - m \in 1 .. n)
      /\ \A i \in 1 .. n : i + m \in m + 1 .. m + n /\ i + m \in 1 .. m + n /\ (i + m) - m = i
      /\ \A i \in 1 .. m : i \in 1 .. m + n
  BY <1>1
<1>4. ToSet(j) = ToSet(k) \cup ToSet(l)
  <2>1. ASSUME NEW i \in 1 .. m + n PROVE j[i] \in ToSet(k) \cup ToSet(l)
    BY <1>1, <1>2, <1>3 DEF ToSet
  <2>2. ASSUME NEW i \in 1 .. m PROVE k[i] \in ToSet(j)
    BY <1>1, <1>2, <1>3 DEF ToSet
  <2>3. ASSUME NEW i \in 1 .. n PROVE l[i] \in ToSet(j)
    <3>1. j[i + m] = l[i] /\ i + m \in DOMAIN j
      BY <1>1, <1>2, <1>3
    <3> QED BY <3>1 DEF ToSet
  <2>4. \A x \in ToSet(j) : \E i \in 1 .. m + n : x = j[i]
    BY <1>1 DEF ToSet
  <2>5. (\A x \in ToSet(k) : \E i \in 1 .. m : x = k[i]) /\ (\A x \in ToSet(l) : \E i \in 1 .. n : x = l[i])
    BY <1>1 DEF ToSet
  <2> QED BY <2>1, <2>2, <2>3, <2>4, <2>5
<1>5. ASSUME NEW a \in 1 .. m + n, NEW b \in 1 .. m + n, j[a] = j[b] PROVE a = b
  <2>1. \A x \in 1 .. m, y \in 1 .. n : k[x] # l[y]
    BY <1>1 DEF ToSet
  <2>2. CASE a \in 1 .. m /\ b \in 1 .. m
    BY <1>1, <1>2, <1>5, <2>2 DEF IsInjective
  <2>3. CASE a \in m + 1 .. m + n /\ b \in m + 1 .. m + n
    <3>1. a - m \in 1 .. n /\ b - m \in 1 .. n /\ l[a - m] = l[b - m]
      BY <1>1, <1>2, <1>5, <2>3
    <3>2. a - m = b - m
      BY <1>1, <3>1 DEF IsInjective
    <3> QED BY <1>1, <2>3, <3>2
  <2>4. CASE a \in 1 .. m /\ b \in m + 1 .. m + n
    <3>1. b - m \in 1 .. n /\ k[a] = l[b - m]
      BY <1>1, <1>2, <1>5, <2>4
    <3> QED BY <2>1, <2>4, <3>1
  <2>5. CASE b \in 1 .. m /\ a \in m + 1 .. m + n
    <3>1. a - m \in 1 .. n /\ k[b] = l[a - m]
      BY <1>1, <1>2, <1>5, <2>5
    <3> QED BY <2>1, <2>5, <3>1
  <2> QED BY <1>3, <2>2, <2>3, <2>4, <2>5
<1>6. IsInjective(j)
  BY <1>1, <1>5 DEF IsInjective
<1> QED BY <1>1, <1>4, <1>6 DEF j

LEMMA ListOfOne ==
  ASSUME NEW S, NEW b \in S, NEW l \in Seq(S), b \notin ToSet(l), IsInjective(l)
  PROVE  <<b>> \o l \in Seq(S) /\ ToSet(<<b>> \o l) = {b} \cup ToSet(l) /\ IsInjective(<<b>> \o l)
<1> DEFINE k == <<b>>
<1>1. k \in Seq(S) /\ ToSet(k) = {b} /\ IsInjective(k)
  BY DEF ToSet, IsInjective
<1> HIDE DEF k
<1>2. ToSet(k) \cap ToSet(l) = {}
  BY <1>1
<1>3. k \o l \in Seq(S) /\ ToSet(k \o l) = ToSet(k) \cup ToSet(l) /\ IsInjective(k \o l)
  BY <1>1, <1>2, ListOfTwo
<1> QED BY <1>1, <1>3 DEF k

(* The recursion of FlattenSeq has a solution.                             *)
LEMMA FlattenUnfolds ==
  ASSUME NEW S, NEW seqs \in Seq(S), Len(seqs) # 0
  PROVE  \E f : /\ FlattenSeq(seqs) = f[Len(seqs)]
                /\ f[1] = seqs[1]
                /\ \A i \in 2 .. Len(seqs) : f[i] = f[i - 1] \o seqs[i]
<1> DEFINE IsFlat(f, k) == f = [i \in 1 .. k |-> IF i = 1 THEN seqs[i] ELSE f[i - 1] \o seqs[i]]
           T == {k \in Nat : \E f : IsFlat(f, k)}
           L == Len(seqs)
<1>1. 0 \in T
  <2> DEFINE f == [i \in 1 .. 0 |-> seqs[i]]
  <2>1. 1 .. 0 = {}
    OBVIOUS
  <2>2. IsFlat(f, 0)
    BY <2>1
  <2> HIDE DEF IsFlat, f
  <2> QED BY <2>2
<1>2. ASSUME NEW k \in Nat, k \in T PROVE k + 1 \in T
  <2>1. PICK f : IsFlat(f, k)
    BY <1>2
  <2> DEFINE g == [i \in 1 .. k + 1 |-> IF i = 1 THEN seqs[i] ELSE f[i - 1] \o seqs[i]]
  <2>2. \A i \in 1 .. k : i \in 1 .. k + 1 /\ g[i] = f[i]
    <3>1. \A i \in 1 .. k : i \in 1 .. k + 1
      OBVIOUS
    <3>2. \A i \in 1 .. k : f[i] = IF i = 1 THEN seqs[i] ELSE f[i - 1] \o seqs[i]
      BY <2>1
    <3>3. \A i \in 1 .. k + 1 : g[i] = IF i = 1 THEN seqs[i] ELSE f[i - 1] \o seqs[i]
      OBVIOUS
    <3> HIDE DEF g
    <3> QED BY <3>1, <3>2, <3>3
  <2>3. \A i \in 1 .. k + 1 : i # 1 => g[i - 1] = f[i - 1]
    <3> TAKE i \in 1 .. k + 1
    <3> HAVE i # 1
    <3>1. i - 1 \in 1 .. k
      OBVIOUS
    <3> HIDE DEF g
    <3> QED BY <2>2, <3>1
  <2>4. IsFlat(g, k + 1)
    BY <2>3
  <2>5. k + 1 \in Nat
    OBVIOUS
  <2> HIDE DEF IsFlat, g
  <2> QED BY <2>4, <2>5
<1>3. L \in Nat /\ L # 0
  OBVIOUS
<1>4. \E f : IsFlat(f, L)
  <2>1. L \in T
    <3> HIDE DEF T, L
    <3> QED BY <1>1, <1>2, <1>3, CountingUp
  <2> HIDE DEF IsFlat, L
  <2> QED BY <2>1
<1> DEFINE flatten == CHOOSE f : IsFlat(f, L)
<1>5. IsFlat(flatten, L)
  <2> HIDE DEF IsFlat, L
  <2> QED BY <1>4
<1>6. FlattenSeq(seqs) = flatten[L]
  BY DEF FlattenSeq
<1> HIDE DEF flatten, L
<1>7. \A i \in 1 .. L : flatten[i] = IF i = 1 THEN seqs[i] ELSE flatten[i - 1] \o seqs[i]
  BY <1>5
<1>8. 1 \in 1 .. L /\ \A i \in 2 .. L : i \in 1 .. L /\ i # 1
  BY <1>3
<1>9. flatten[1] = seqs[1] /\ \A i \in 2 .. L : flatten[i] = flatten[i - 1] \o seqs[i]
  BY <1>7, <1>8
<1> QED BY <1>6, <1>9 DEF L

(* A list of lists without a common element, one after the other.          *)
LEMMA ListOfMany ==
  ASSUME NEW S, NEW lists \in Seq(Seq(S)),
         \A i \in DOMAIN lists : IsInjective(lists[i]),
         \A i, j \in DOMAIN lists : i # j => ToSet(lists[i]) \cap ToSet(lists[j]) = {}
  PROVE  /\ FlattenSeq(lists) \in Seq(S)
         /\ ToSet(FlattenSeq(lists)) = UNION {ToSet(lists[i]) : i \in DOMAIN lists}
         /\ IsInjective(FlattenSeq(lists))
<1> DEFINE L == Len(lists)
<1>1. L \in Nat /\ DOMAIN lists = 1 .. L /\ \A i \in 1 .. L : lists[i] \in Seq(S)
  OBVIOUS
<1>2. CASE L = 0
  <2>1. FlattenSeq(lists) = lists /\ lists = <<>> /\ DOMAIN lists = {}
    BY <1>2 DEF FlattenSeq
  <2> QED BY <2>1 DEF ToSet, IsInjective
<1>3. CASE L # 0
  <2>1. PICK f : /\ FlattenSeq(lists) = f[L] /\ f[1] = lists[1]
                 /\ \A i \in 2 .. L : f[i] = f[i - 1] \o lists[i]
    BY <1>3, FlattenUnfolds
  <2> DEFINE Flat(k) == /\ f[k] \in Seq(S) /\ IsInjective(f[k])
                        /\ ToSet(f[k]) = UNION {ToSet(lists[i]) : i \in 1 .. k}
             T == {k \in Nat : k + 1 <= L => Flat(k + 1)}
  <2> HIDE DEF L
  <2>2. 0 \in T
    <3>1. 1 \in 1 .. L /\ 1 .. 1 = {1}
      BY <1>1, <1>3
    <3>2. Flat(1)
      BY <1>1, <2>1, <3>1
    <3> HIDE DEF Flat
    <3> QED BY <3>2
  <2>3. ASSUME NEW k \in Nat, k \in T PROVE k + 1 \in T
    <3>1. SUFFICES ASSUME (k + 1) + 1 <= L PROVE Flat((k + 1) + 1)
      <4> HIDE DEF Flat
      <4> QED OBVIOUS
    <3> DEFINE p == k + 1
               q == p + 1
    <3>2. p \in Nat /\ p + 1 \in 2 .. L /\ p \in 1 .. L /\ (p + 1) - 1 = p /\ q \in 1 .. L
          /\ 1 .. q = (1 .. p) \cup {q} /\ \A i \in 1 .. p : i # q /\ i \in 1 .. L
      BY <1>1, <3>1
    <3>3. Flat(p)
      <4>1. k + 1 <= L
        BY <1>1, <3>1
      <4> HIDE DEF Flat
      <4> QED BY <2>3, <4>1
    <3>4. f[q] = f[p] \o lists[q]
      BY <2>1, <3>2
    <3> HIDE DEF p, q
    <3>5. ToSet(f[p]) \cap ToSet(lists[q]) = {}
      BY <1>1, <3>2, <3>3
    <3>6. /\ f[p] \o lists[q] \in Seq(S) /\ IsInjective(f[p] \o lists[q])
          /\ ToSet(f[p] \o lists[q]) = ToSet(f[p]) \cup ToSet(lists[q])
      <4>1. lists[q] \in Seq(S) /\ IsInjective(lists[q])
        BY <1>1, <3>2
      <4> QED BY <3>3, <3>5, <4>1, ListOfTwo
    <3>7. UNION {ToSet(lists[i]) : i \in 1 .. q} = (UNION {ToSet(lists[i]) : i \in 1 .. p}) \cup ToSet(lists[q])
      BY <3>2
    <3>8. Flat(q)
      BY <3>3, <3>4, <3>6, <3>7
    <3> HIDE DEF Flat
    <3> QED BY <3>8 DEF p, q
  <2>4. Flat(L)
    <3>1. L - 1 \in Nat /\ (L - 1) + 1 = L
      BY <1>1, <1>3
    <3>2. L - 1 \in T
      <4> HIDE DEF T
      <4> QED BY <2>2, <2>3, <3>1, CountingUp
    <3> HIDE DEF Flat
    <3> QED BY <1>1, <3>1, <3>2
  <2> QED BY <1>1, <2>1, <2>4
<1> QED BY <1>2, <1>3

-------------------------------------------------------------------------------
(* rangeToCidrs: the cursor moves from cut to cut of the range.            *)

(* The size rangeToCidrs takes at cur.                                     *)
LEMMA LargestFits ==
  ASSUME NEW cur \in Nat, NEW last \in Nat, cur <= last
  PROVE  /\ Largest(cur, last) \in 0 .. AddressBits
         /\ 2^Largest(cur, last) \in Nat \ {0}
         /\ cur % 2^Largest(cur, last) = 0
         /\ cur + 2^Largest(cur, last) \in cur + 1 .. last + 1
         /\ \A s \in 0 .. AddressBits :
              cur % 2^s = 0 /\ cur + 2^s - 1 <= last => s <= Largest(cur, last)
<1> DEFINE S == {s \in 0 .. AddressBits : cur % 2^s = 0 /\ cur + 2^s - 1 <= last}
<1>1. S \in SUBSET Nat /\ AddressBits \in Nat /\ \A s \in S : s <= AddressBits
  BY AddressBitsAssumption
<1>2. 0 \in S
  BY PowerZero, AddressBitsAssumption
<1>3. Largest(cur, last) = Max(S)
  BY DEF Largest
<1>4. Max(S) \in S /\ \A s \in S : s <= Max(S)
  <2> HIDE DEF S
  <2> QED BY <1>1, <1>2, BoundedHasMax
<1>5. 2^Max(S) \in Nat \ {0}
  <2> HIDE DEF S
  <2>1. Max(S) \in Nat
    BY <1>1, <1>4
  <2> QED BY <2>1, PowerCounts
<1>6. cur + 2^Max(S) - 1 <= last
  BY <1>4
<1>7. cur + 2^Max(S) \in cur + 1 .. last + 1
  <2> HIDE DEF S
  <2> QED BY <1>5, <1>6
<1>8. Max(S) \in 0 .. AddressBits /\ cur % 2^Max(S) = 0
  BY <1>4
<1>9. \A s \in 0 .. AddressBits :
              cur % 2^s = 0 /\ cur + 2^s - 1 <= last => s <= Max(S)
  BY <1>4
<1> HIDE DEF S
<1> QED BY <1>3, <1>5, <1>7, <1>8, <1>9

(* The recursion of rangeToCidrs has a solution: the cursor only moves up. *)
LEMMA RangeUnfolds ==
  ASSUME NEW first \in Nat, NEW last \in Int, first <= last + 1
  PROVE  \E f : /\ rangeToCidrs(first, last) = f[first]
                /\ \A cur \in first .. last + 1 :
                     f[cur] = IF cur > last THEN <<>>
                              ELSE <<Block(cur, Largest(cur, last))>> \o f[cur + 2^Largest(cur, last)]
<1> DEFINE IsFrom(f, c) ==
             f = [cur \in c .. last + 1 |->
                    IF cur > last THEN <<>>
                    ELSE <<Block(cur, Largest(cur, last))>> \o f[cur + 2^Largest(cur, last)]]
           S == {n \in Nat : n <= last + 1 - first => \E f : IsFrom(f, last + 1 - n)}
<1>1. 0 \in S
  <2> DEFINE f == [cur \in last + 1 .. last + 1 |-> <<>>]
  <2>1. last + 1 - 0 = last + 1 /\ \A cur \in last + 1 .. last + 1 : cur > last
    OBVIOUS
  <2>2. IsFrom(f, last + 1)
    BY <2>1
  <2> QED BY <2>1, <2>2
<1>2. ASSUME NEW n \in Nat, n \in S PROVE n + 1 \in S
  <2>1. SUFFICES ASSUME n + 1 <= last + 1 - first PROVE \E g : IsFrom(g, last + 1 - (n + 1))
    OBVIOUS
  <2> DEFINE c == last + 1 - n
  <2>2. c \in Nat /\ last \in Nat /\ first <= c - 1 /\ c - 1 <= last /\ c - 1 \in Nat
        /\ last + 1 - (n + 1) = c - 1
    BY <2>1
  <2>3. PICK f : IsFrom(f, c)
    <3>1. n <= last + 1 - first
      BY <2>1
    <3> HIDE DEF IsFrom
    <3> QED BY <1>2, <3>1
  <2> DEFINE g == [cur \in c - 1 .. last + 1 |->
                     IF cur > last THEN <<>>
                     ELSE <<Block(cur, Largest(cur, last))>> \o f[cur + 2^Largest(cur, last)]]
  <2> HIDE DEF c
  <2>4. \A cur \in c .. last + 1 : g[cur] = f[cur]
    <3>1. \A cur \in c .. last + 1 : cur \in c - 1 .. last + 1
      BY <2>2
    <3>2. \A cur \in c .. last + 1 :
            f[cur] = IF cur > last THEN <<>>
                     ELSE <<Block(cur, Largest(cur, last))>> \o f[cur + 2^Largest(cur, last)]
      BY <2>3
    <3> QED BY <3>1, <3>2
  <2>5. \A cur \in c - 1 .. last + 1 : ~(cur > last) => cur + 2^Largest(cur, last) \in c .. last + 1
    <3> TAKE cur \in c - 1 .. last + 1
    <3> HAVE ~(cur > last)
    <3>1. cur \in Nat /\ cur <= last
      BY <2>2
    <3> DEFINE next == cur + 2^Largest(cur, last)
    <3>2. next \in cur + 1 .. last + 1
      BY <2>2, <3>1, LargestFits
    <3> HIDE DEF next
    <3>3. next \in c .. last + 1
      BY <2>2, <3>1, <3>2
    <3> QED BY <3>3 DEF next
  <2>6. \A cur \in c - 1 .. last + 1 : ~(cur > last) =>
           g[cur + 2^Largest(cur, last)] = f[cur + 2^Largest(cur, last)]
    BY <2>4, <2>5
  <2>7. IsFrom(g, c - 1)
    BY <2>6
  <2> QED BY <2>2, <2>7
<1> DEFINE d == last + 1 - first
<1>3. d \in S
  <2>1. d \in Nat
    OBVIOUS
  <2> HIDE DEF S, d
  <2> QED BY <1>1, <1>2, <2>1, CountingUp
<1>4. \E f : IsFrom(f, first)
  <2>1. d <= last + 1 - first /\ last + 1 - d = first
    OBVIOUS
  <2> HIDE DEF d, IsFrom
  <2> QED BY <1>3, <2>1
<1> DEFINE from == CHOOSE f : IsFrom(f, first)
<1>5. IsFrom(from, first)
  <2> HIDE DEF IsFrom
  <2> QED BY <1>4
<1>6. rangeToCidrs(first, last) = from[first]
  BY DEF rangeToCidrs
<1> HIDE DEF from
<1>7. \A cur \in first .. last + 1 :
         from[cur] = IF cur > last THEN <<>>
                     ELSE <<Block(cur, Largest(cur, last))>> \o from[cur + 2^Largest(cur, last)]
  BY <1>5
<1> QED BY <1>6, <1>7

(* Inclusion of blocks, by their ends.                                     *)
LEMMA InsideRange ==
  ASSUME NEW first \in Nat, NEW last \in Int, NEW b \in Blocks
  PROVE  Span(b) \subseteq first .. last <=> first <= b.network /\ b.broadcast <= last
<1>1. b.network \in Nat /\ b.broadcast \in Nat /\ b.network <= b.broadcast
  BY BlockShape
<1>2. ASSUME Span(b) \subseteq first .. last PROVE first <= b.network /\ b.broadcast <= last
  <2>1. b.network \in Span(b) /\ b.broadcast \in Span(b)
    BY <1>1 DEF Span
  <2>2. b.network \in first .. last /\ b.broadcast \in first .. last
    BY <1>2, <2>1
  <2> QED BY <2>2
<1>3. ASSUME first <= b.network, b.broadcast <= last PROVE Span(b) \subseteq first .. last
  BY <1>1, <1>3 DEF Span
<1> QED BY <1>2, <1>3

LEMMA SpanInside ==
  ASSUME NEW b \in Blocks, NEW c \in Blocks
  PROVE  Span(b) \subseteq Span(c) <=> c.network <= b.network /\ b.broadcast <= c.broadcast
<1>1. c.network \in Nat /\ c.broadcast \in Int
  BY BlockShape
<1> QED BY <1>1, InsideRange DEF Span

(* c is a cut of first .. last: no block inside goes across it.            *)
Cut(first, last, c) ==
  \A b \in Blocks : first <= b.network /\ b.broadcast <= last /\ b.network < c => b.broadcast < c

(* What the list from a cut on must be.                                    *)
After(first, last, c) == {b \in FewestBlocks(first .. last) : c <= b.network}

(* The block at a cut leads to the next cut, and is all there is in        *)
(* between.                                                                *)
LEMMA RangeStep ==
  ASSUME NEW first \in Nat, NEW last \in Nat, last < 2^AddressBits,
         NEW c \in first .. last, Cut(first, last, c)
  PROVE  LET B    == Block(c, Largest(c, last))
             next == c + 2^Largest(c, last)
         IN  /\ next \in c + 1 .. last + 1
             /\ Cut(first, last, next)
             /\ B \in Blocks /\ B.network = c
             /\ After(first, last, c) = {B} \cup After(first, last, next)
<1> DEFINE s == Largest(c, last)
           B == Block(c, s)
           next == c + 2^s
<1>1. /\ s \in 0 .. AddressBits /\ 2^s \in Nat \ {0} /\ c % 2^s = 0
      /\ next \in c + 1 .. last + 1
      /\ \A t \in 0 .. AddressBits : c % 2^t = 0 /\ c + 2^t - 1 <= last => t <= s
  <2>1. c \in Nat /\ c <= last
    OBVIOUS
  <2> QED BY <2>1, LargestFits
<1> HIDE DEF s
<1>2. c \in Nat /\ c <= last /\ c \in Addresses
  BY SpaceSize DEF Addresses
<1>3. B \in Blocks /\ B.network = c /\ B.broadcast = next - 1 /\ next \in Nat /\ next <= last + 1
  <2>1. B \in Blocks
    BY <1>1, <1>2, BlocksAre
  <2>2. B.network = c /\ B.broadcast = next - 1
    BY <1>1, <1>2 DEF Block
  <2> QED BY <1>1, <1>2, <2>1, <2>2
<1> HIDE DEF B, next
<1>4. ASSUME NEW b \in Blocks, b.network = c, b.broadcast <= last PROVE b.broadcast < next
  <2>1. PICK t \in 0 .. AddressBits : /\ t \in Nat /\ b = Block(b.network, t) /\ b.network % 2^t = 0
                                      /\ 2^t \in Nat \ {0} /\ b.broadcast + 1 = b.network + 2^t
                                      /\ b.broadcast \in Nat
    BY BlockShape
  <2>2. t <= s /\ s \in Nat
    <3>1. c % 2^t = 0 /\ c + 2^t - 1 <= last
      BY <1>4, <2>1
    <3> QED BY <1>1, <3>1
  <2>3. 2^t <= 2^s
    BY <2>1, <2>2, PowersDivide
  <2> QED BY <1>1, <1>2, <1>4, <2>1, <2>3 DEF next
<1>5. ASSUME NEW b \in Blocks, first <= b.network, b.broadcast <= last, b.network < next
      PROVE  b.broadcast < next
  <2>1. b.network \in Nat /\ b.broadcast \in Nat
    BY BlockShape
  <2>2. CASE b.network < c
    <3>1. b.broadcast < c
      BY <1>5, <2>2 DEF Cut
    <3> QED BY <1>1, <1>2, <2>1, <3>1
  <2>3. CASE b.network = c
    BY <1>4, <1>5, <2>3
  <2>4. CASE c < b.network
    <3>1. B.network < b.network /\ b.network <= B.broadcast
      BY <1>3, <1>5, <2>1, <2>4
    <3>2. b.broadcast <= B.broadcast
      BY <1>3, <3>1, BlocksNest
    <3> QED BY <1>3, <2>1, <3>2
  <2> QED BY <1>2, <2>1, <2>2, <2>3, <2>4
<1>6. Cut(first, last, next)
  BY <1>5 DEF Cut
<1>7. B \in FewestBlocks(first .. last)
  <2>1. Span(B) \subseteq first .. last
    BY <1>2, <1>3, InsideRange
  <2>2. ASSUME NEW d \in Blocks, Span(d) \subseteq first .. last, Span(B) \subseteq Span(d)
        PROVE  B = d
    <3>1. first <= d.network /\ d.broadcast <= last /\ d.network \in Nat /\ d.broadcast \in Nat
      <4>1. d.network \in Nat /\ d.broadcast \in Nat
        BY BlockShape
      <4>2. first <= d.network /\ d.broadcast <= last
        BY <2>2, InsideRange
      <4> QED BY <4>1, <4>2
    <3>2. d.network <= c /\ next - 1 <= d.broadcast
      BY <1>3, <2>2, SpanInside
    <3>3. ~(d.network < c)
      <4>1. d.network < c => d.broadcast < c
        BY <3>1 DEF Cut
      <4> QED BY <1>1, <1>2, <1>3, <3>1, <3>2, <4>1
    <3>4. d.network = c
      BY <1>2, <3>1, <3>2, <3>3
    <3>5. d.broadcast < next
      BY <1>4, <3>1, <3>4
    <3>6. d.broadcast = next - 1
      BY <1>3, <3>1, <3>2, <3>5
    <3> QED BY <1>3, <3>4, <3>6, SameSpan
  <2> QED BY <1>3, <2>1, <2>2 DEF FewestBlocks
<1>8. ASSUME NEW b \in FewestBlocks(first .. last), c <= b.network, b.network < next
      PROVE  b = B
  <2>1. b \in Blocks /\ Span(b) \subseteq first .. last
    BY DEF FewestBlocks
  <2>2. first <= b.network /\ b.broadcast <= last /\ b.network \in Nat /\ b.broadcast \in Nat
    <3>1. b.network \in Nat /\ b.broadcast \in Nat
      BY <2>1, BlockShape
    <3>2. last \in Int
      OBVIOUS
    <3>3. first <= b.network /\ b.broadcast <= last
      BY <2>1, <3>2, InsideRange
    <3> QED BY <3>1, <3>3
  <2>3. b.broadcast <= B.broadcast
    BY <1>3, <1>5, <1>8, <2>1, <2>2
  <2>4. Span(b) \subseteq Span(B)
    BY <1>3, <1>8, <2>1, <2>3, SpanInside
  <2>5. Span(B) \subseteq first .. last
    BY <1>7 DEF FewestBlocks
  <2> QED BY <1>3, <2>4, <2>5 DEF FewestBlocks
<1>9. After(first, last, c) = {B} \cup After(first, last, next)
  <2>1. \A b \in FewestBlocks(first .. last) : b.network \in Nat
    BY BlockShape DEF FewestBlocks
  <2>2. \A b \in After(first, last, c) : b \in {B} \cup After(first, last, next)
    BY <1>2, <1>3, <1>8, <2>1 DEF After
  <2>3. B \in After(first, last, c)
    BY <1>2, <1>3, <1>7 DEF After
  <2>4. \A b \in After(first, last, next) : b \in After(first, last, c)
    <3>1. c <= next
      BY <1>1, <1>2
    <3> QED BY <1>2, <1>3, <2>1, <3>1 DEF After
  <2> QED BY <2>2, <2>3, <2>4
<1> QED BY <1>1, <1>3, <1>6, <1>9 DEF s, B, next

(* The list rangeToCidrs makes of first .. last: the fewest blocks that    *)
(* cover it, once each.                                                    *)
THEOREM RangeIsFewest ==
  ASSUME NEW first \in Nat, NEW last \in Int, first <= last + 1, last < 2^AddressBits
  PROVE  /\ rangeToCidrs(first, last) \in Seq(Blocks)
         /\ IsFewest(rangeToCidrs(first, last), first .. last)
<1>1. PICK f : /\ rangeToCidrs(first, last) = f[first]
               /\ \A cur \in first .. last + 1 :
                    f[cur] = IF cur > last THEN <<>>
                             ELSE <<Block(cur, Largest(cur, last))>> \o f[cur + 2^Largest(cur, last)]
  BY RangeUnfolds
<1> DEFINE Listed(c) == /\ f[c] \in Seq(Blocks)
                        /\ ToSet(f[c]) = After(first, last, c)
                        /\ IsInjective(f[c])
           S == {n \in Nat : \A c \in first .. last + 1 :
                               last + 1 - n <= c /\ Cut(first, last, c) => Listed(c)}
<1>2. 0 \in S
  <2>1. f[last + 1] = <<>>
    <3>1. last + 1 \in first .. last + 1 /\ last + 1 > last
      OBVIOUS
    <3> QED BY <1>1, <3>1
  <2>2. After(first, last, last + 1) = {}
    <3>1. ASSUME NEW b \in FewestBlocks(first .. last) PROVE ~(last + 1 <= b.network)
      <4>1. b \in Blocks /\ Span(b) \subseteq first .. last
        BY DEF FewestBlocks
      <4>2. b.broadcast <= last
        BY <4>1, InsideRange
      <4>3. b.network \in Nat /\ b.broadcast \in Nat /\ b.network <= b.broadcast
        BY <4>1, BlockShape
      <4> QED BY <4>2, <4>3
    <3> QED BY <3>1 DEF After
  <2>3. <<>> \in Seq(Blocks) /\ ToSet(<<>>) = {} /\ IsInjective(<<>>)
    BY DEF ToSet, IsInjective
  <2>4. Listed(last + 1)
    BY <2>1, <2>2, <2>3
  <2>5. \A c \in first .. last + 1 : last + 1 - 0 <= c => c = last + 1
    OBVIOUS
  <2> HIDE DEF Listed
  <2> QED BY <2>4, <2>5
<1>3. ASSUME NEW n \in Nat, n \in S PROVE n + 1 \in S
  <2>1. SUFFICES ASSUME NEW c \in first .. last + 1, last + 1 - (n + 1) <= c,
                        Cut(first, last, c), ~(last + 1 - n <= c)
                 PROVE  Listed(c)
    <3> HIDE DEF Listed
    <3> QED BY <1>3
  <2>2. c \in first .. last /\ last \in Nat /\ ~(c > last)
    BY <2>1
  <2> DEFINE B    == Block(c, Largest(c, last))
             next == c + 2^Largest(c, last)
  <2>3. /\ next \in c + 1 .. last + 1
        /\ Cut(first, last, next)
        /\ B \in Blocks /\ B.network = c
        /\ After(first, last, c) = {B} \cup After(first, last, next)
    BY <2>1, <2>2, RangeStep
  <2>4. f[c] = <<B>> \o f[next]
    BY <1>1, <2>1, <2>2
  <2> HIDE DEF B, next
  <2>5. next \in first .. last + 1 /\ last + 1 - n <= next
    BY <2>1, <2>2, <2>3
  <2>6. Listed(next)
    <3> HIDE DEF Listed
    <3> QED BY <1>3, <2>3, <2>5
  <2>7. B \notin ToSet(f[next])
    BY <2>2, <2>3, <2>6 DEF After
  <2>8. <<B>> \o f[next] \in Seq(Blocks) /\ IsInjective(<<B>> \o f[next])
        /\ ToSet(<<B>> \o f[next]) = {B} \cup ToSet(f[next])
    BY <2>3, <2>6, <2>7, ListOfOne
  <2> QED BY <2>3, <2>4, <2>6, <2>8
<1> DEFINE d == last + 1 - first
<1>4. d \in S
  <2>1. d \in Nat
    OBVIOUS
  <2> HIDE DEF S, d
  <2> QED BY <1>2, <1>3, <2>1, CountingUp
<1>5. Cut(first, last, first)
  <2>1. \A b \in Blocks : b.network \in Nat
    BY BlockShape
  <2> QED BY <2>1 DEF Cut
<1>6. Listed(first)
  <2>1. first \in first .. last + 1 /\ last + 1 - d <= first
    OBVIOUS
  <2> HIDE DEF d, Listed
  <2> QED BY <1>4, <1>5, <2>1
<1>7. After(first, last, first) = FewestBlocks(first .. last)
  <2>1. \A b \in FewestBlocks(first .. last) : first <= b.network
    <3> TAKE b \in FewestBlocks(first .. last)
    <3>1. b \in Blocks /\ Span(b) \subseteq first .. last
      BY DEF FewestBlocks
    <3> QED BY <3>1, InsideRange
  <2> QED BY <2>1 DEF After
<1> QED BY <1>1, <1>6, <1>7 DEF IsFewest

(* Of an address set in which first .. last stands alone, the fewest       *)
(* blocks that start in first .. last are those of the range.              *)
LEMMA FewestOfGap ==
  ASSUME NEW first \in Nat, NEW last \in Int, first <= last + 1, NEW A \in SUBSET Nat,
         first .. last \subseteq A, first - 1 \notin A, last + 1 \notin A
  PROVE  FewestBlocks(first .. last) = {b \in FewestBlocks(A) : b.network \in first .. last}
<1>1. ASSUME NEW b \in Blocks, Span(b) \subseteq A, NEW x \in first .. last, x \in Span(b)
      PROVE  Span(b) \subseteq first .. last
  <2>1. b.network \in Nat /\ b.broadcast \in Nat /\ b.network <= b.broadcast
    BY BlockShape
  <2>2. first - 1 \notin Span(b) /\ last + 1 \notin Span(b)
    BY <1>1
  <2>3. first <= b.network
    <3>1. b.network <= x /\ x <= b.broadcast
      BY <1>1, <2>1 DEF Span
    <3>2. first - 1 \in Span(b) \/ first - 1 < b.network \/ b.broadcast < first - 1
      BY <2>1 DEF Span
    <3> QED BY <2>1, <2>2, <3>1, <3>2
  <2>4. b.broadcast <= last
    <3>1. b.network <= x /\ x <= b.broadcast
      BY <1>1, <2>1 DEF Span
    <3>2. last + 1 \in Span(b) \/ last + 1 < b.network \/ b.broadcast < last + 1
      BY <2>1 DEF Span
    <3> QED BY <2>1, <2>2, <3>1, <3>2
  <2> QED BY <2>3, <2>4, InsideRange
<1>2. \A b \in Blocks : b.network \in Span(b)
  BY BlockShape DEF Span
<1>3. ASSUME NEW b \in FewestBlocks(first .. last)
      PROVE  b \in FewestBlocks(A) /\ b.network \in first .. last
  <2>1. b \in Blocks /\ Span(b) \subseteq first .. last
    BY DEF FewestBlocks
  <2>2. b.network \in first .. last
    BY <1>2, <2>1
  <2>3. ASSUME NEW d \in Blocks, Span(d) \subseteq A, Span(b) \subseteq Span(d) PROVE b = d
    <3>1. Span(d) \subseteq first .. last
      BY <1>1, <1>2, <2>1, <2>2, <2>3
    <3> QED BY <2>3, <3>1 DEF FewestBlocks
  <2> QED BY <2>1, <2>2, <2>3 DEF FewestBlocks
<1>4. ASSUME NEW b \in FewestBlocks(A), b.network \in first .. last
      PROVE  b \in FewestBlocks(first .. last)
  <2>1. b \in Blocks /\ Span(b) \subseteq A
    BY DEF FewestBlocks
  <2>2. Span(b) \subseteq first .. last
    BY <1>1, <1>2, <1>4, <2>1
  <2>3. ASSUME NEW d \in Blocks, Span(d) \subseteq first .. last, Span(b) \subseteq Span(d) PROVE b = d
    BY <2>3 DEF FewestBlocks
  <2> QED BY <2>1, <2>2, <2>3 DEF FewestBlocks
<1> QED BY <1>3, <1>4

-------------------------------------------------------------------------------
(* toMergedRanges: the ranges stay in order, with gaps between them.       *)

(* Ranges in increasing order, none touching the next.                     *)
Apart(ranges) ==
  /\ ranges \in Seq([network : Addresses, broadcast : Addresses])
  /\ \A i \in DOMAIN ranges : ranges[i].network <= ranges[i].broadcast
  /\ \A i, j \in DOMAIN ranges : i < j => ranges[i].broadcast + 1 < ranges[j].network

CoveredBelow(cidrs, n) == Covered({c \in cidrs : c.network < n})

(* Merging in a range that starts no earlier than the ranges before it.    *)
LEMMA MergeKeepsApart ==
  ASSUME NEW ranges, Apart(ranges),
         NEW r \in [network : Addresses, broadcast : Addresses], r.network <= r.broadcast,
         \A i \in DOMAIN ranges : ranges[i].network < r.network
  PROVE  /\ Apart(Merge(ranges, r))
         /\ Covered(ToSet(Merge(ranges, r))) = Covered(ToSet(ranges)) \cup Span(r)
         /\ \A i \in DOMAIN Merge(ranges, r) : Merge(ranges, r)[i].network <= r.network
<1> DEFINE RR == [network : Addresses, broadcast : Addresses]
           n  == Len(ranges)
           m  == Merge(ranges, r)
<1> HIDE DEF RR, n, m
<1>1. ranges \in Seq(RR) /\ n \in Nat /\ DOMAIN ranges = 1 .. n /\ \A i \in 1 .. n : ranges[i] \in RR
  <2>1. ranges \in Seq(RR)
    BY DEF Apart, RR
  <2>2. DOMAIN ranges = 1 .. Len(ranges) /\ Len(ranges) \in Nat /\ \A i \in 1 .. Len(ranges) : ranges[i] \in RR
    BY <2>1
  <2> QED BY <2>1, <2>2 DEF n
<1>2. /\ \A q \in RR : q.network \in Nat /\ q.broadcast \in Nat
      /\ r \in RR
  BY SpaceSize DEF RR
<1>3. /\ \A i \in 1 .. n : ranges[i].network <= ranges[i].broadcast
      /\ \A i, j \in 1 .. n : i < j => ranges[i].broadcast + 1 < ranges[j].network
  BY <1>1 DEF Apart
<1>4. CASE ranges # <<>> /\ r.network <= Last(ranges).broadcast + 1
  <2> DEFINE top  == Max({ranges[n].broadcast, r.broadcast})
             last == [network |-> ranges[n].network, broadcast |-> top]
  <2>1. n \in DOMAIN ranges /\ Last(ranges) = ranges[n] /\ ranges[n] \in RR
    <3>1. n # 0
      BY <1>1, <1>4 DEF n
    <3>2. n \in 1 .. n
      BY <1>1, <3>1
    <3> QED BY <1>1, <3>2 DEF Last, n
  <2>2. /\ top \in {ranges[n].broadcast, r.broadcast}
        /\ top >= ranges[n].broadcast /\ top >= r.broadcast
    <3> DEFINE b == ranges[n].broadcast
               e == r.broadcast
    <3>1. b \in Nat /\ e \in Nat
      BY <1>2, <2>1
    <3> HIDE DEF b, e
    <3>2. \A x \in {b, e} : x <= b + e
      BY <3>1
    <3>3. {b, e} \in SUBSET Nat /\ {b, e} # {} /\ b + e \in Nat
      BY <3>1
    <3>4. Max({b, e}) \in {b, e} /\ \A x \in {b, e} : x <= Max({b, e})
      BY <3>2, <3>3, BoundedHasMax
    <3>5. Max({b, e}) >= b /\ Max({b, e}) >= e
      BY <3>1, <3>4
    <3> QED BY <3>4, <3>5 DEF b, e
  <2> HIDE DEF top
  <2>3. m = [ranges EXCEPT ![n] = last]
    <3>1. m = [ranges EXCEPT ![n].broadcast = top]
      BY <1>4 DEF m, n, Merge, top
    <3>2. [ranges[n] EXCEPT !.broadcast = top] = last
      BY <2>1 DEF RR
    <3> QED BY <3>1, <3>2
  <2>4. last \in RR /\ last.network = ranges[n].network /\ last.broadcast = top /\ top \in Nat
    BY <1>2, <2>1, <2>2 DEF RR
  <2> HIDE DEF last
  <2>5. /\ m \in Seq(RR) /\ DOMAIN m = 1 .. n /\ m[n] = last
        /\ \A i \in 1 .. n : i # n => m[i] = ranges[i]
    <3>1. \A k \in 1 .. n : [ranges EXCEPT ![n] = last][k] \in RR
      BY <1>1, <2>4
    <3>2. DOMAIN m = 1 .. n /\ m[n] = last /\ \A i \in 1 .. n : i # n => m[i] = ranges[i]
      BY <1>1, <2>1, <2>3
    <3>3. m = [k \in 1 .. n |-> m[k]] /\ \A k \in 1 .. n : m[k] \in RR
      BY <1>1, <2>3, <3>1
    <3>4. m \in [1 .. n -> RR]
      BY <3>3
    <3>5. m \in Seq(RR)
      BY <1>1, <3>4
    <3> QED BY <3>2, <3>5
  <2>6. \A i \in 1 .. n : m[i].network = ranges[i].network
    BY <2>4, <2>5
  <2>7. \A i \in 1 .. n : m[i].network <= m[i].broadcast
    <3> TAKE i \in 1 .. n
    <3>1. ranges[i].network <= ranges[i].broadcast /\ ranges[i] \in RR
      BY <1>1, <1>3
    <3>2. CASE i = n
      BY <1>2, <2>2, <2>4, <2>5, <3>1, <3>2
    <3> QED BY <2>5, <3>1, <3>2
  <2>8. \A i, j \in 1 .. n : i < j => m[i].broadcast + 1 < m[j].network
    <3> TAKE i, j \in 1 .. n
    <3> HAVE i < j
    <3>1. i # n /\ m[i] = ranges[i]
      BY <1>1, <2>5
    <3>2. ranges[i].broadcast + 1 < ranges[j].network
      BY <1>1, <1>3
    <3> QED BY <2>6, <3>1, <3>2
  <2>9. Apart(m)
    BY <2>5, <2>7, <2>8 DEF Apart, RR
  <2>10. \A i \in DOMAIN m : m[i].network <= r.network
    <3> TAKE i \in DOMAIN m
    <3>1. ranges[i].network < r.network /\ ranges[i] \in RR
      BY <1>1, <2>5
    <3> QED BY <1>2, <2>5, <2>6, <3>1
  <2>11. Span(last) = Span(ranges[n]) \cup Span(r)
    <3> DEFINE a == ranges[n].network
               b == ranges[n].broadcast
               s == r.network
               e == r.broadcast
    <3>1. a \in Nat /\ b \in Nat /\ s \in Nat /\ e \in Nat /\ a < s /\ s <= b + 1 /\ s <= e /\ a <= b
      BY <1>2, <1>4, <1>1, <1>3, <2>1
    <3>2. top \in {b, e} /\ top >= b /\ top >= e
      BY <2>2
    <3> HIDE DEF a, b, s, e
    <3>3. a .. top = (a .. b) \cup (s .. e)
      BY <3>1, <3>2
    <3> QED BY <2>4, <3>3 DEF Span, a, b, s, e
  <2>12. Covered(ToSet(m)) = Covered(ToSet(ranges)) \cup Span(r)
    <3>1. \A x : x \in Covered(ToSet(m)) <=> \E i \in 1 .. n : x \in Span(m[i])
      BY <2>5 DEF Covered, ToSet
    <3>2. \A x : x \in Covered(ToSet(ranges)) <=> \E i \in 1 .. n : x \in Span(ranges[i])
      BY <1>1 DEF Covered, ToSet
    <3>3. \A i \in 1 .. n : i # n => Span(m[i]) = Span(ranges[i])
      BY <2>5
    <3>4. Span(m[n]) = Span(ranges[n]) \cup Span(r) /\ n \in 1 .. n
      BY <1>1, <2>1, <2>5, <2>11
    <3>5. \A x : (\E i \in 1 .. n : x \in Span(m[i]))
                   <=> (\E i \in 1 .. n : x \in Span(ranges[i])) \/ x \in Span(r)
      BY <3>3, <3>4
    <3> QED BY <3>1, <3>2, <3>5
  <2> QED BY <2>9, <2>10, <2>12 DEF m
<1>5. CASE ~(ranges # <<>> /\ r.network <= Last(ranges).broadcast + 1)
  <2>1. m = Append(ranges, r)
    BY <1>5 DEF Merge, m
  <2>2. /\ m \in Seq(RR) /\ DOMAIN m = 1 .. n + 1 /\ m[n + 1] = r
        /\ \A i \in 1 .. n : m[i] = ranges[i]
    <3>1. Len(ranges) = n
      BY DEF n
    <3>2. /\ Append(ranges, r) \in Seq(RR) /\ DOMAIN Append(ranges, r) = 1 .. n + 1
          /\ Append(ranges, r)[n + 1] = r /\ \A i \in 1 .. n : Append(ranges, r)[i] = ranges[i]
      BY <1>1, <1>2, <3>1, AppendProperties
    <3> QED BY <2>1, <3>2
  <2>3. \A i \in 1 .. n + 1 : i \in 1 .. n \/ i = n + 1
    BY <1>1
  <2>4. \A i \in 1 .. n : ranges[i].broadcast + 1 < r.network
    <3> TAKE i \in 1 .. n
    <3>1. n \in 1 .. n /\ ranges # <<>> /\ Last(ranges) = ranges[n]
      BY <1>1 DEF Last, n
    <3>2. ranges[n].broadcast + 1 < r.network
      BY <1>1, <1>2, <1>5, <3>1
    <3>3. CASE i = n
      BY <3>2, <3>3
    <3>4. CASE i # n
      <4>1. ranges[i].broadcast + 1 < ranges[n].network /\ ranges[n].network <= ranges[n].broadcast
        BY <1>1, <1>3, <3>1, <3>4
      <4>2. ranges[i] \in RR /\ ranges[n] \in RR
        BY <1>1, <3>1
      <4> QED BY <1>2, <3>2, <4>1, <4>2
    <3> QED BY <3>3, <3>4
  <2>5. \A i \in 1 .. n + 1 : m[i].network <= m[i].broadcast
    BY <1>1, <1>3, <2>2, <2>3
  <2>6. \A i, j \in 1 .. n + 1 : i < j => m[i].broadcast + 1 < m[j].network
    <3> TAKE i, j \in 1 .. n + 1
    <3> HAVE i < j
    <3>1. i \in 1 .. n
      BY <1>1
    <3>2. CASE j = n + 1
      BY <2>2, <2>4, <3>1, <3>2
    <3>3. CASE j \in 1 .. n
      BY <1>1, <1>3, <2>2, <3>1, <3>3
    <3> QED BY <2>3, <3>2, <3>3
  <2>7. Apart(m)
    BY <2>2, <2>5, <2>6 DEF Apart, RR
  <2>8. \A i \in DOMAIN m : m[i].network <= r.network
    <3> TAKE i \in DOMAIN m
    <3>1. CASE i = n + 1
      BY <1>2, <2>2, <3>1
    <3>2. CASE i \in 1 .. n
      <4>1. m[i].network < r.network /\ m[i] \in RR
        BY <1>1, <2>2, <3>2
      <4> QED BY <1>2, <4>1
    <3> QED BY <2>2, <2>3, <3>1, <3>2
  <2>9. Covered(ToSet(m)) = Covered(ToSet(ranges)) \cup Span(r)
    <3>1. \A x : x \in Covered(ToSet(m)) <=> \E i \in 1 .. n + 1 : x \in Span(m[i])
      BY <2>2 DEF Covered, ToSet
    <3>2. \A x : x \in Covered(ToSet(ranges)) <=> \E i \in 1 .. n : x \in Span(ranges[i])
      BY <1>1 DEF Covered, ToSet
    <3>3. \A i \in 1 .. n : i \in 1 .. n + 1 /\ Span(m[i]) = Span(ranges[i])
      BY <1>1, <2>2
    <3>4. Span(m[n + 1]) = Span(r) /\ n + 1 \in 1 .. n + 1
      BY <1>1, <2>2
    <3> QED BY <2>3, <3>1, <3>2, <3>3, <3>4
  <2> QED BY <2>7, <2>8, <2>9 DEF m
<1> QED BY <1>4, <1>5

(* What Apart says of one range.                                           *)
LEMMA RangesOf ==
  ASSUME NEW ranges, Apart(ranges), NEW i \in DOMAIN ranges
  PROVE  /\ ranges[i].network \in Nat /\ ranges[i].broadcast \in Nat
         /\ ranges[i].network \in Addresses /\ ranges[i].broadcast \in Addresses
         /\ ranges[i].network <= ranges[i].broadcast
<1> DEFINE RR == [network : Addresses, broadcast : Addresses]
<1>1. ranges \in Seq(RR)
  BY DEF Apart
<1> HIDE DEF RR
<1>2. ranges[i] \in RR
  BY <1>1
<1>3. ranges[i].network \in Addresses /\ ranges[i].broadcast \in Addresses
  BY <1>2 DEF RR
<1> QED BY <1>3, SpaceSize DEF Apart

(* The widest of the blocks that start at a covers what they all cover.    *)
LEMMA WidestCovers ==
  ASSUME NEW cidrs \in SUBSET Blocks, NEW a \in Nat, Starting(cidrs, a) # {}
  PROVE  /\ WidestAt(cidrs, a) \in [network : Addresses, broadcast : Addresses]
         /\ WidestAt(cidrs, a).network = a
         /\ a <= WidestAt(cidrs, a).broadcast
         /\ Span(WidestAt(cidrs, a)) = Covered(Starting(cidrs, a))
<1> DEFINE E == {c.broadcast : c \in Starting(cidrs, a)}
           N == 2^AddressBits
<1>1. \A c \in Starting(cidrs, a) :
        /\ c.network = a /\ a \in Addresses /\ c.broadcast \in Nat /\ c.broadcast \in Addresses
        /\ a <= c.broadcast /\ c.broadcast <= N
  <2> TAKE c \in Starting(cidrs, a)
  <2>1. c \in Blocks /\ c.network = a
    BY DEF Starting
  <2>2. c.network \in Addresses /\ c.broadcast \in Addresses /\ c.network <= c.broadcast
        /\ c.broadcast \in Nat /\ c.broadcast < N
    BY <2>1, BlockShape
  <2>3. N \in Nat
    BY SpaceSize
  <2> HIDE DEF N
  <2> QED BY <2>1, <2>2, <2>3
<1>2. E \in SUBSET Nat /\ E # {} /\ (\A e \in E : e <= N) /\ N \in Nat
  BY <1>1, SpaceSize
<1>3. Max(E) \in E /\ \A e \in E : e <= Max(E)
  <2> HIDE DEF E, N
  <2> QED BY <1>2, BoundedHasMax
<1>4. WidestAt(cidrs, a) = [network |-> a, broadcast |-> Max(E)]
  BY DEF WidestAt
<1>5. PICK w \in Starting(cidrs, a) : w.broadcast = Max(E)
  BY <1>3
<1>6. \A c \in Starting(cidrs, a) : c.broadcast <= Max(E)
  BY <1>3
<1> HIDE DEF E
<1>7. a .. Max(E) = Covered(Starting(cidrs, a))
  <2>1. \A c \in Starting(cidrs, a) : \A x \in Span(c) : x \in a .. Max(E)
    <3> TAKE c \in Starting(cidrs, a)
    <3> TAKE x \in Span(c)
    <3>1. x \in a .. c.broadcast /\ c.broadcast \in Nat /\ Max(E) \in Nat
      BY <1>1, <1>5 DEF Span
    <3> QED BY <1>6, <3>1
  <2>2. Span(w) = a .. Max(E)
    BY <1>1, <1>5 DEF Span
  <2> QED BY <2>1, <2>2 DEF Covered
<1>8. Max(E) \in Addresses /\ a <= Max(E) /\ a \in Addresses
  BY <1>1, <1>5
<1> QED BY <1>4, <1>7, <1>8 DEF Span

(* Where the loop over the sorted blocks gets to.                          *)
LEMMA MergeUnfolds ==
  ASSUME NEW cidrs
  PROVE  \E f : /\ toMergedRanges(cidrs) = f[2^AddressBits]
                /\ f[0] = <<>>
                /\ \A n \in 0 .. 2^AddressBits - 1 :
                     f[n + 1] = IF Starting(cidrs, n) = {} THEN f[n]
                                ELSE Merge(f[n], WidestAt(cidrs, n))
<1> DEFINE IsBelow(f, k) ==
             f = [n \in 0 .. k |->
                    IF n = 0 THEN <<>>
                    ELSE IF Starting(cidrs, n - 1) = {} THEN f[n - 1]
                    ELSE Merge(f[n - 1], WidestAt(cidrs, n - 1))]
           S == {k \in Nat : \E f : IsBelow(f, k)}
           N == 2^AddressBits
<1>1. 0 \in S
  <2> DEFINE f == [n \in 0 .. 0 |-> <<>>]
  <2>1. \A n \in 0 .. 0 : n = 0
    OBVIOUS
  <2>2. IsBelow(f, 0)
    BY <2>1
  <2> QED BY <2>2
<1>2. ASSUME NEW k \in Nat, k \in S PROVE k + 1 \in S
  <2>1. PICK f : IsBelow(f, k)
    BY <1>2
  <2> DEFINE g == [n \in 0 .. k + 1 |->
                    IF n = 0 THEN <<>>
                    ELSE IF Starting(cidrs, n - 1) = {} THEN f[n - 1]
                    ELSE Merge(f[n - 1], WidestAt(cidrs, n - 1))]
  <2>2. \A n \in 0 .. k : n \in 0 .. k + 1 /\ g[n] = f[n]
    BY <2>1
  <2>3. \A n \in 0 .. k + 1 : n # 0 => g[n - 1] = f[n - 1]
    <3> TAKE n \in 0 .. k + 1
    <3> HAVE n # 0
    <3>1. n - 1 \in 0 .. k
      OBVIOUS
    <3> HIDE DEF g
    <3> QED BY <2>2, <3>1
  <2>4. IsBelow(g, k + 1)
    BY <2>3
  <2>5. k + 1 \in Nat
    OBVIOUS
  <2> HIDE DEF IsBelow, g
  <2> QED BY <2>4, <2>5
<1>3. N \in Nat
  BY SpaceSize
<1>4. \E f : IsBelow(f, N)
  <2>1. N \in S
    <3> HIDE DEF S, N
    <3> QED BY <1>1, <1>2, <1>3, CountingUp
  <2> HIDE DEF IsBelow, N
  <2> QED BY <2>1
<1> DEFINE below == CHOOSE f : IsBelow(f, N)
<1>5. IsBelow(below, N)
  <2> HIDE DEF IsBelow, N
  <2> QED BY <1>4
<1>6. toMergedRanges(cidrs) = below[N]
  BY DEF toMergedRanges
<1> HIDE DEF below
<1>7. \A n \in 0 .. N :
         below[n] = IF n = 0 THEN <<>>
                    ELSE IF Starting(cidrs, n - 1) = {} THEN below[n - 1]
                    ELSE Merge(below[n - 1], WidestAt(cidrs, n - 1))
  BY <1>5
<1>8. \A n \in 0 .. N - 1 : n + 1 \in 0 .. N /\ n + 1 # 0 /\ (n + 1) - 1 = n
  <2> HIDE DEF N
  <2> QED BY <1>3
<1>9. \A n \in 0 .. N - 1 :
         below[n + 1] = IF Starting(cidrs, n) = {} THEN below[n]
                        ELSE Merge(below[n], WidestAt(cidrs, n))
  <2> TAKE n \in 0 .. N - 1
  <2> DEFINE p == n + 1
  <2>1. p \in 0 .. N /\ p # 0 /\ p - 1 = n
    BY <1>8
  <2> HIDE DEF p, N
  <2>2. below[p] = IF Starting(cidrs, n) = {} THEN below[n]
                   ELSE Merge(below[n], WidestAt(cidrs, n))
    BY <1>7, <2>1
  <2> QED BY <2>2 DEF p
<1>10. below[0] = <<>>
  <2>1. 0 \in 0 .. N
    <3> HIDE DEF N
    <3> QED BY <1>3
  <2> QED BY <1>7, <2>1
<1> QED BY <1>6, <1>9, <1>10

(* The ranges toMergedRanges returns cover what the blocks cover, in order *)
(* and with a gap between any two.                                         *)
THEOREM MergedRangesAreApart ==
  ASSUME NEW cidrs \in SUBSET Blocks
  PROVE  /\ Apart(toMergedRanges(cidrs))
         /\ Covered(ToSet(toMergedRanges(cidrs))) = Covered(cidrs)
<1> DEFINE N == 2^AddressBits
<1>1. PICK f : /\ toMergedRanges(cidrs) = f[N]
               /\ f[0] = <<>>
               /\ \A n \in 0 .. N - 1 :
                    f[n + 1] = IF Starting(cidrs, n) = {} THEN f[n]
                               ELSE Merge(f[n], WidestAt(cidrs, n))
  BY MergeUnfolds
<1>2. N \in Nat /\ \A c \in cidrs : c.network \in Nat /\ c.network < N /\ c.network <= c.broadcast
  <2>1. \A c \in cidrs : c.network \in Addresses /\ c.network <= c.broadcast
    BY BlockShape
  <2> QED BY <2>1, SpaceSize DEF Addresses
<1> DEFINE Inv(n) == /\ Apart(f[n])
                     /\ Covered(ToSet(f[n])) = CoveredBelow(cidrs, n)
                     /\ \A i \in DOMAIN f[n] : f[n][i].network < n
           S == {n \in Nat : n <= N => Inv(n)}
<1> HIDE DEF N
<1>3. 0 \in S
  <2>1. f[0] \in Seq([network : Addresses, broadcast : Addresses]) /\ DOMAIN f[0] = {}
    BY <1>1
  <2>2. Covered(ToSet(f[0])) = {}
    BY <2>1 DEF Covered, ToSet
  <2>3. CoveredBelow(cidrs, 0) = {}
    <3>1. {c \in cidrs : c.network < 0} = {}
      BY <1>2
    <3> QED BY <3>1 DEF CoveredBelow, Covered
  <2> QED BY <2>1, <2>2, <2>3 DEF Apart
<1>4. ASSUME NEW n \in Nat, n \in S PROVE n + 1 \in S
  <2>1. SUFFICES ASSUME n + 1 <= N PROVE Inv(n + 1)
    OBVIOUS
  <2>2. Inv(n) /\ n \in 0 .. N - 1
    BY <1>2, <1>4, <2>1
  <2>3. f[n + 1] = IF Starting(cidrs, n) = {} THEN f[n] ELSE Merge(f[n], WidestAt(cidrs, n))
    BY <1>1, <2>2
  <2>4. CoveredBelow(cidrs, n + 1) = CoveredBelow(cidrs, n) \cup Covered(Starting(cidrs, n))
    <3>1. {c \in cidrs : c.network < n + 1} = {c \in cidrs : c.network < n} \cup Starting(cidrs, n)
      BY <1>2 DEF Starting
    <3> QED BY <3>1 DEF CoveredBelow, Covered
  <2>5. \A i \in DOMAIN f[n] : f[n][i].network \in Nat
    BY <2>2, RangesOf
  <2>6. CASE Starting(cidrs, n) = {}
    <3>1. f[n + 1] = f[n]
      BY <2>3, <2>6
    <3>2. Covered(Starting(cidrs, n)) = {}
      BY <2>6 DEF Covered
    <3> QED BY <2>2, <2>4, <2>5, <3>1, <3>2
  <2>7. CASE Starting(cidrs, n) # {}
    <3> DEFINE w == WidestAt(cidrs, n)
    <3>1. /\ w \in [network : Addresses, broadcast : Addresses]
          /\ w.network = n /\ n <= w.broadcast
          /\ Span(w) = Covered(Starting(cidrs, n))
      BY <2>7, WidestCovers
    <3>2. f[n + 1] = Merge(f[n], w)
      BY <2>3, <2>7
    <3> HIDE DEF w
    <3>3. /\ Apart(Merge(f[n], w))
          /\ Covered(ToSet(Merge(f[n], w))) = Covered(ToSet(f[n])) \cup Span(w)
          /\ \A i \in DOMAIN Merge(f[n], w) : Merge(f[n], w)[i].network <= w.network
      BY <2>2, <3>1, MergeKeepsApart
    <3>4. \A i \in DOMAIN f[n + 1] : f[n + 1][i].network \in Nat
      BY <3>2, <3>3, RangesOf
    <3>5. \A i \in DOMAIN f[n + 1] : f[n + 1][i].network < n + 1
      BY <3>1, <3>2, <3>3, <3>4
    <3>6. Covered(ToSet(f[n + 1])) = CoveredBelow(cidrs, n + 1)
      BY <2>2, <2>4, <3>1, <3>2, <3>3
    <3> QED BY <3>2, <3>3, <3>5, <3>6
  <2> QED BY <2>6, <2>7
<1>5. Inv(N)
  <2> HIDE DEF Inv
  <2>1. N \in S
    <3> HIDE DEF S
    <3> QED BY <1>2, <1>3, <1>4, CountingUp
  <2> QED BY <1>2, <2>1
<1>6. CoveredBelow(cidrs, N) = Covered(cidrs)
  <2>1. {c \in cidrs : c.network < N} = cidrs
    BY <1>2
  <2> QED BY <2>1 DEF CoveredBelow
<1> QED BY <1>1, <1>5, <1>6

-------------------------------------------------------------------------------
(* aggregateCidrs and excludeIpFromCidrs, range by range.                  *)

(* RangeIsFewest for a range that stands alone in A.                       *)
LEMMA RangePart ==
  ASSUME NEW first \in Nat, NEW last \in Int, first <= last + 1, last < 2^AddressBits,
         NEW A \in SUBSET Nat, first .. last \subseteq A, first - 1 \notin A, last + 1 \notin A
  PROVE  /\ rangeToCidrs(first, last) \in Seq(Blocks) /\ IsInjective(rangeToCidrs(first, last))
         /\ ToSet(rangeToCidrs(first, last)) = {b \in FewestBlocks(A) : b.network \in first .. last}
<1>1. rangeToCidrs(first, last) \in Seq(Blocks) /\ IsFewest(rangeToCidrs(first, last), first .. last)
  BY RangeIsFewest
<1>2. FewestBlocks(first .. last) = {b \in FewestBlocks(A) : b.network \in first .. last}
  BY FewestOfGap
<1> QED BY <1>1, <1>2 DEF IsFewest

(* Ranges that are Apart leave a gap on both sides of each.                *)
LEMMA GapsBetween ==
  ASSUME NEW ranges, Apart(ranges), NEW i \in DOMAIN ranges
  PROVE  /\ Covered(ToSet(ranges)) \in SUBSET Nat
         /\ Span(ranges[i]) \subseteq Covered(ToSet(ranges))
         /\ ranges[i].network - 1 \notin Covered(ToSet(ranges))
         /\ ranges[i].broadcast + 1 \notin Covered(ToSet(ranges))
         /\ \A j \in DOMAIN ranges : i # j => Span(ranges[i]) \cap Span(ranges[j]) = {}
<1> DEFINE A == Covered(ToSet(ranges))
<1>1. \A x : x \in A <=> \E j \in DOMAIN ranges : x \in Span(ranges[j])
  BY DEF Covered, ToSet
<1>2. \A j \in DOMAIN ranges :
        ranges[j].network \in Nat /\ ranges[j].broadcast \in Nat /\ ranges[j].network <= ranges[j].broadcast
  BY RangesOf
<1>3. \A j, k \in DOMAIN ranges : j < k => ranges[j].broadcast + 1 < ranges[k].network
  BY DEF Apart
<1>4. \A j \in DOMAIN ranges : j \in Nat
  BY DEF Apart
<1>5. \A j \in DOMAIN ranges : \A x \in Span(ranges[j]) :
        x \in Nat /\ ranges[j].network <= x /\ x <= ranges[j].broadcast
  BY <1>2 DEF Span
<1>6. ASSUME NEW j \in DOMAIN ranges
      PROVE  ranges[i].network - 1 \notin Span(ranges[j]) /\ ranges[i].broadcast + 1 \notin Span(ranges[j])
  <2>1. CASE i = j
    BY <1>2, <1>5, <2>1
  <2>2. CASE i < j
    <3>1. ranges[i].broadcast + 1 < ranges[j].network
      BY <1>3, <2>2
    <3> QED BY <1>2, <1>5, <3>1
  <2>3. CASE j < i
    <3>1. ranges[j].broadcast + 1 < ranges[i].network
      BY <1>3, <2>3
    <3> QED BY <1>2, <1>5, <3>1
  <2> QED BY <1>4, <2>1, <2>2, <2>3
<1>7. ASSUME NEW j \in DOMAIN ranges, i # j PROVE Span(ranges[i]) \cap Span(ranges[j]) = {}
  <2>1. CASE i < j
    <3>1. ranges[i].broadcast + 1 < ranges[j].network
      BY <1>3, <2>1
    <3> QED BY <1>2, <1>5, <3>1
  <2>2. CASE j < i
    <3>1. ranges[j].broadcast + 1 < ranges[i].network
      BY <1>3, <2>2
    <3> QED BY <1>2, <1>5, <3>1
  <2> QED BY <1>4, <1>7, <2>1, <2>2
<1> QED BY <1>1, <1>5, <1>6, <1>7

(* One list for each range, one after the other: the fewest blocks of all. *)
LEMMA RangeByRange ==
  ASSUME NEW ranges, Apart(ranges), NEW A \in SUBSET Covered(ToSet(ranges)), NEW lists,
         lists = [i \in DOMAIN ranges |-> lists[i]],
         \A i \in DOMAIN ranges :
           /\ lists[i] \in Seq(Blocks) /\ IsInjective(lists[i])
           /\ ToSet(lists[i]) = {b \in FewestBlocks(A) : b.network \in Span(ranges[i])}
  PROVE  FlattenSeq(lists) \in Seq(Blocks) /\ IsFewest(FlattenSeq(lists), A)
<1>1. lists \in Seq(Seq(Blocks)) /\ DOMAIN lists = DOMAIN ranges
  <2>1. DOMAIN ranges = 1 .. Len(ranges) /\ Len(ranges) \in Nat
    BY DEF Apart
  <2> DEFINE n == Len(ranges)
  <2> HIDE DEF n
  <2>2. lists = [i \in 1 .. n |-> lists[i]] /\ n \in Nat /\ \A i \in 1 .. n : lists[i] \in Seq(Blocks)
    BY <2>1 DEF n
  <2>3. lists \in [1 .. n -> Seq(Blocks)]
    BY <2>2
  <2>4. lists \in Seq(Seq(Blocks))
    BY <2>2, <2>3
  <2> QED BY <2>4
<1>2. \A i, j \in DOMAIN lists : i # j => ToSet(lists[i]) \cap ToSet(lists[j]) = {}
  BY <1>1, GapsBetween
<1>3. /\ FlattenSeq(lists) \in Seq(Blocks)
      /\ ToSet(FlattenSeq(lists)) = UNION {ToSet(lists[i]) : i \in DOMAIN lists}
      /\ IsInjective(FlattenSeq(lists))
  BY <1>1, <1>2, ListOfMany
<1>4. UNION {ToSet(lists[i]) : i \in DOMAIN lists} = FewestBlocks(A)
  <2>1. ASSUME NEW b \in FewestBlocks(A) PROVE \E i \in DOMAIN lists : b \in ToSet(lists[i])
    <3>1. b \in Blocks /\ Span(b) \subseteq A
      BY DEF FewestBlocks
    <3>2. b.network \in Span(b)
      BY <3>1, BlockShape DEF Span
    <3>3. PICK i \in DOMAIN ranges : b.network \in Span(ranges[i])
      BY <3>1, <3>2 DEF Covered, ToSet
    <3> QED BY <1>1, <3>3
  <2>2. ASSUME NEW i \in DOMAIN lists, NEW b \in ToSet(lists[i]) PROVE b \in FewestBlocks(A)
    BY <1>1
  <2> QED BY <2>1, <2>2
<1> QED BY <1>3, <1>4 DEF IsFewest

(* aggregateCidrs returns, for every list of blocks, the fewest blocks that*)
(* cover the same addresses, once each.                                    *)
THEOREM AggregateIsFewest ==
  ASSUME NEW cidrs \in SUBSET Blocks
  PROVE  /\ aggregateCidrs(cidrs) \in Seq(Blocks)
         /\ IsFewest(aggregateCidrs(cidrs), Covered(cidrs))
<1> DEFINE ranges == toMergedRanges(cidrs)
           A == Covered(cidrs)
           lists == [i \in DOMAIN ranges |-> rangeToCidrs(ranges[i].network, ranges[i].broadcast)]
<1>1. Apart(ranges) /\ Covered(ToSet(ranges)) = A
  BY MergedRangesAreApart
<1>2. aggregateCidrs(cidrs) = FlattenSeq(lists)
  BY DEF aggregateCidrs
<1> HIDE DEF ranges, A
<1>3. ASSUME NEW i \in DOMAIN ranges
      PROVE  /\ lists[i] \in Seq(Blocks) /\ IsInjective(lists[i])
             /\ ToSet(lists[i]) = {b \in FewestBlocks(A) : b.network \in Span(ranges[i])}
  <2> DEFINE first == ranges[i].network
             last  == ranges[i].broadcast
  <2>1. first \in Nat /\ last \in Int /\ first <= last + 1 /\ last < 2^AddressBits
    <3>1. first \in Nat /\ last \in Nat /\ last \in Addresses /\ first <= last
      BY <1>1, RangesOf
    <3> QED BY <3>1, SpaceSize DEF Addresses
  <2>2. A \in SUBSET Nat /\ first .. last \subseteq A /\ first - 1 \notin A /\ last + 1 \notin A
    BY <1>1, GapsBetween DEF Span
  <2>3. lists[i] = rangeToCidrs(first, last) /\ Span(ranges[i]) = first .. last
    BY DEF Span
  <2> HIDE DEF lists, first, last
  <2> QED BY <2>1, <2>2, <2>3, RangePart
<1>4. lists = [i \in DOMAIN ranges |-> lists[i]]
  OBVIOUS
<1> HIDE DEF lists
<1>5. FlattenSeq(lists) \in Seq(Blocks) /\ IsFewest(FlattenSeq(lists), A)
  BY <1>1, <1>3, <1>4, RangeByRange
<1> QED BY <1>2, <1>5 DEF A

(* excludeIpFromCidrs returns, for every list of blocks, the fewest blocks *)
(* that cover the same addresses but for ip, once each.                    *)
THEOREM ExcludeIsFewest ==
  ASSUME NEW cidrs \in SUBSET Blocks, NEW ip \in Nat
  PROVE  /\ excludeIpFromCidrs(cidrs, ip) \in Seq(Blocks)
         /\ IsFewest(excludeIpFromCidrs(cidrs, ip), Covered(cidrs) \ {ip})
<1> DEFINE ranges == toMergedRanges(cidrs)
           C == Covered(cidrs)
           A == C \ {ip}
           lists == [i \in DOMAIN ranges |->
                      IF ip < ranges[i].network \/ ip > ranges[i].broadcast
                      THEN rangeToCidrs(ranges[i].network, ranges[i].broadcast)
                      ELSE rangeToCidrs(ranges[i].network, ip - 1)
                             \o rangeToCidrs(ip + 1, ranges[i].broadcast)]
<1>1. Apart(ranges) /\ Covered(ToSet(ranges)) = C
  BY MergedRangesAreApart
<1>2. excludeIpFromCidrs(cidrs, ip) = FlattenSeq(lists)
  BY DEF excludeIpFromCidrs
<1> HIDE DEF ranges, C
<1>3. ASSUME NEW i \in DOMAIN ranges
      PROVE  /\ lists[i] \in Seq(Blocks) /\ IsInjective(lists[i])
             /\ ToSet(lists[i]) = {b \in FewestBlocks(A) : b.network \in Span(ranges[i])}
  <2> DEFINE first == ranges[i].network
             last  == ranges[i].broadcast
  <2>1. first \in Nat /\ last \in Nat /\ first <= last /\ last < 2^AddressBits
    <3>1. first \in Nat /\ last \in Nat /\ last \in Addresses /\ first <= last
      BY <1>1, RangesOf
    <3> QED BY <3>1, SpaceSize DEF Addresses
  <2>2. C \in SUBSET Nat /\ first .. last \subseteq C /\ first - 1 \notin C /\ last + 1 \notin C
    BY <1>1, GapsBetween DEF Span
  <2>3. lists[i] = IF ip < first \/ ip > last THEN rangeToCidrs(first, last)
                   ELSE rangeToCidrs(first, ip - 1) \o rangeToCidrs(ip + 1, last)
    OBVIOUS
  <2>4. Span(ranges[i]) = first .. last
    BY DEF Span
  <2> HIDE DEF lists, first, last
  <2>5. A \in SUBSET Nat /\ ip \notin A /\ first - 1 \notin A /\ last + 1 \notin A
    BY <2>2
  <2>6. CASE ip < first \/ ip > last
    <3>1. first .. last \subseteq A
      BY <2>1, <2>2, <2>6
    <3>2. last \in Int /\ first <= last + 1
      BY <2>1
    <3> HIDE DEF A
    <3>3. /\ rangeToCidrs(first, last) \in Seq(Blocks) /\ IsInjective(rangeToCidrs(first, last))
          /\ ToSet(rangeToCidrs(first, last)) = {b \in FewestBlocks(A) : b.network \in first .. last}
      BY <2>1, <2>5, <3>1, <3>2, RangePart
    <3>4. lists[i] = rangeToCidrs(first, last)
      BY <2>3, <2>6
    <3> QED BY <2>4, <3>3, <3>4
  <2>7. CASE ~(ip < first \/ ip > last)
    <3> DEFINE low  == rangeToCidrs(first, ip - 1)
               high == rangeToCidrs(ip + 1, last)
    <3>1. /\ low \in Seq(Blocks) /\ IsInjective(low)
          /\ ToSet(low) = {b \in FewestBlocks(A) : b.network \in first .. ip - 1}
      <4> DEFINE below == ip - 1
      <4>1. below \in Int /\ first <= below + 1 /\ below < 2^AddressBits
        BY <2>1, <2>7, SpaceSize
      <4>2. first .. below \subseteq A /\ below + 1 \notin A
        BY <2>1, <2>2, <2>7
      <4> HIDE DEF A, below
      <4>3. first \in Nat /\ A \in SUBSET Nat /\ first - 1 \notin A
        BY <2>1, <2>5
      <4>4. /\ rangeToCidrs(first, below) \in Seq(Blocks) /\ IsInjective(rangeToCidrs(first, below))
            /\ ToSet(rangeToCidrs(first, below)) = {b \in FewestBlocks(A) : b.network \in first .. below}
        BY <4>1, <4>2, <4>3, RangePart
      <4> QED BY <4>4 DEF below
    <3>2. /\ high \in Seq(Blocks) /\ IsInjective(high)
          /\ ToSet(high) = {b \in FewestBlocks(A) : b.network \in ip + 1 .. last}
      <4> DEFINE above == ip + 1
      <4>1. above \in Nat /\ last \in Int /\ above <= last + 1
        BY <2>1, <2>7
      <4>2. above .. last \subseteq A /\ above - 1 \notin A
        BY <2>1, <2>2, <2>7
      <4> HIDE DEF A, above
      <4>3. last < 2^AddressBits /\ A \in SUBSET Nat /\ last + 1 \notin A
        BY <2>1, <2>5
      <4>4. /\ rangeToCidrs(above, last) \in Seq(Blocks) /\ IsInjective(rangeToCidrs(above, last))
            /\ ToSet(rangeToCidrs(above, last)) = {b \in FewestBlocks(A) : b.network \in above .. last}
        BY <4>1, <4>2, <4>3, RangePart
      <4> QED BY <4>4 DEF above
    <3>3. lists[i] = low \o high
      BY <2>3, <2>7
    <3> HIDE DEF low, high
    <3>4. ToSet(low) \cap ToSet(high) = {}
      <4>1. \A x : ~(x \in first .. ip - 1 /\ x \in ip + 1 .. last)
        BY <2>1
      <4> QED BY <3>1, <3>2, <4>1
    <3>5. /\ low \o high \in Seq(Blocks) /\ IsInjective(low \o high)
          /\ ToSet(low \o high) = ToSet(low) \cup ToSet(high)
      <4>1. /\ low \in Seq(Blocks) /\ IsInjective(low)
            /\ high \in Seq(Blocks) /\ IsInjective(high)
        BY <3>1, <3>2
      <4> QED BY <3>4, <4>1, ListOfTwo
    <3>6. \A b \in FewestBlocks(A) : b.network # ip
      <4> TAKE b \in FewestBlocks(A)
      <4>1. b \in Blocks /\ Span(b) \subseteq A
        BY DEF FewestBlocks
      <4>2. b.network \in Span(b)
        BY <4>1, BlockShape DEF Span
      <4> QED BY <2>5, <4>1, <4>2
    <3>7. \A x : x # ip => (x \in first .. last <=> x \in first .. ip - 1 \/ x \in ip + 1 .. last)
      BY <2>1, <2>7
    <3>8. ToSet(low \o high) = {b \in FewestBlocks(A) : b.network \in first .. last}
      BY <3>1, <3>2, <3>5, <3>6, <3>7
    <3> QED BY <2>4, <3>3, <3>5, <3>8
  <2> QED BY <2>6, <2>7
<1>4. lists = [i \in DOMAIN ranges |-> lists[i]]
  OBVIOUS
<1>5. A \in SUBSET Covered(ToSet(ranges))
  BY <1>1
<1> HIDE DEF lists, A
<1>6. FlattenSeq(lists) \in Seq(Blocks) /\ IsFewest(FlattenSeq(lists), A)
  BY <1>1, <1>3, <1>4, <1>5, RangeByRange
<1> QED BY <1>2, <1>6 DEF A, C

(* The fewest blocks cover what the blocks cover: every block lies in a    *)
(* largest one.                                                            *)
LEMMA FewestCover ==
  ASSUME NEW cidrs \in SUBSET Blocks
  PROVE  Covered(FewestBlocks(Covered(cidrs))) = Covered(cidrs)
<1> DEFINE A == Covered(cidrs)
<1>1. ASSUME NEW c \in Blocks, Span(c) \subseteq A
      PROVE  \E b \in FewestBlocks(A) : Span(c) \subseteq Span(b)
  <2> DEFINE Larger == {d \in Blocks : Span(d) \subseteq A /\ Span(c) \subseteq Span(d)}
             Sizes  == {d.broadcast - d.network : d \in Larger}
             N      == 2^AddressBits
  <2>1. \A d \in Blocks : /\ d.network \in Nat /\ d.broadcast \in Nat /\ d.network <= d.broadcast
                           /\ d.broadcast < N
    BY BlockShape
  <2>2. c \in Larger /\ N \in Nat
    BY <1>1, SpaceSize
  <2> HIDE DEF N
  <2>3. Sizes \in SUBSET Nat /\ Sizes # {} /\ \A n \in Sizes : n <= N
    BY <2>1, <2>2
  <2>4. Max(Sizes) \in Sizes /\ \A n \in Sizes : n <= Max(Sizes)
    <3> HIDE DEF Sizes
    <3> QED BY <2>2, <2>3, BoundedHasMax
  <2>5. PICK b \in Larger : \A d \in Larger : d.broadcast - d.network <= b.broadcast - b.network
    BY <2>4
  <2>6. ASSUME NEW d \in Blocks, Span(d) \subseteq A, Span(b) \subseteq Span(d) PROVE b = d
    <3>1. d \in Larger
      BY <2>5, <2>6
    <3>2. d.network <= b.network /\ b.broadcast <= d.broadcast
      BY <2>5, <2>6, SpanInside
    <3>3. d.broadcast - d.network <= b.broadcast - b.network
      BY <2>5, <3>1
    <3>4. d.network = b.network /\ d.broadcast = b.broadcast
      BY <2>1, <3>2, <3>3
    <3> QED BY <3>4, SameSpan
  <2>7. b \in FewestBlocks(A)
    BY <2>5, <2>6 DEF FewestBlocks
  <2> QED BY <2>5, <2>7
<1>2. \A c \in cidrs : Span(c) \subseteq A
  BY DEF Covered
<1>3. \A b \in FewestBlocks(A) : Span(b) \subseteq A
  BY DEF FewestBlocks
<1> HIDE DEF A
<1>4. \A x \in Covered(FewestBlocks(A)) : x \in A
  BY <1>3 DEF Covered
<1>5. \A c \in cidrs : \E b \in FewestBlocks(A) : Span(c) \subseteq Span(b)
  BY <1>1, <1>2
<1>6. \A x \in A : x \in Covered(FewestBlocks(A))
  BY <1>5 DEF A, Covered
<1> QED BY <1>4, <1>6 DEF A

(* FewestBlocks deserves its name: no list of blocks that covers the same  *)
(* addresses is shorter than one IsFewest speaks of, for each of its blocks*)
(* must hold one of the other list.                                        *)
THEOREM FewestIsShortest ==
  ASSUME NEW A, NEW list \in Seq(Blocks), IsFewest(list, A),
         NEW others \in SUBSET Blocks, IsFiniteSet(others), Covered(others) = A
  PROVE  Len(list) <= Cardinality(others)
<1> DEFINE n == Len(list)
           f == [i \in 1 .. n |-> CHOOSE d \in others : Span(d) \subseteq Span(list[i])]
<1>1. n \in Nat /\ DOMAIN list = 1 .. n /\ \A i \in 1 .. n : list[i] \in Blocks
  OBVIOUS
<1> HIDE DEF n
<1>2. \A i \in 1 .. n : list[i] \in FewestBlocks(A)
  BY <1>1 DEF IsFewest, ToSet
<1>3. \A b \in Blocks : b.network \in Span(b) /\ b.network \in Nat /\ b.broadcast \in Nat
  BY BlockShape DEF Span
<1>4. ASSUME NEW b \in FewestBlocks(A) PROVE \E d \in others : Span(d) \subseteq Span(b)
  <2>1. b \in Blocks /\ Span(b) \subseteq A
    BY DEF FewestBlocks
  <2>2. PICK d \in others : b.network \in Span(d)
    BY <1>3, <2>1 DEF Covered
  <2>3. d \in Blocks /\ Span(d) \subseteq A
    BY DEF Covered
  <2>4. CASE b.network = d.network
    <3>1. CASE d.broadcast <= b.broadcast
      BY <2>1, <2>3, <2>4, <3>1, <1>3, SpanInside
    <3>2. CASE b.broadcast < d.broadcast
      <4>1. Span(b) \subseteq Span(d)
        BY <2>1, <2>3, <2>4, <3>2, <1>3, SpanInside
      <4>2. b = d
        BY <2>1, <2>3, <4>1 DEF FewestBlocks
      <4> QED BY <4>2
    <3> QED BY <1>3, <2>1, <2>3, <3>1, <3>2
  <2>5. CASE b.network # d.network
    <3>1. d.network < b.network /\ b.network <= d.broadcast
      BY <1>3, <2>1, <2>2, <2>3, <2>5 DEF Span
    <3>2. b.broadcast <= d.broadcast
      BY <2>1, <2>3, <3>1, BlocksNest
    <3>3. Span(b) \subseteq Span(d)
      BY <1>3, <2>1, <2>3, <3>1, <3>2, SpanInside
    <3>4. b = d
      BY <2>1, <2>3, <3>3 DEF FewestBlocks
    <3> QED BY <3>4
  <2> QED BY <2>4, <2>5
<1>5. ASSUME NEW b \in FewestBlocks(A), NEW c \in FewestBlocks(A), NEW x,
             x \in Span(b), x \in Span(c), b.network <= c.network
      PROVE  b = c
  <2>1. b \in Blocks /\ Span(b) \subseteq A /\ c \in Blocks /\ Span(c) \subseteq A
    BY DEF FewestBlocks
  <2>2. c.network <= b.broadcast
    BY <1>3, <1>5, <2>1 DEF Span
  <2>3. Span(c) \subseteq Span(b) \/ Span(b) \subseteq Span(c)
    <3>1. CASE b.network = c.network
      BY <1>3, <2>1, <3>1, SpanInside
    <3>2. CASE b.network < c.network
      <4>1. c.broadcast <= b.broadcast
        BY <2>1, <2>2, <3>2, BlocksNest
      <4> QED BY <1>5, <2>1, <4>1, SpanInside
    <3> QED BY <1>3, <1>5, <2>1, <3>1, <3>2
  <2> QED BY <2>1, <2>3 DEF FewestBlocks
<1>6. \A i \in 1 .. n : f[i] \in others /\ Span(f[i]) \subseteq Span(list[i])
  BY <1>2, <1>4
<1> HIDE DEF f
<1>7. ASSUME NEW i \in 1 .. n, NEW j \in 1 .. n, f[i] = f[j] PROVE i = j
  <2> DEFINE x == f[i].network
  <2>1. x \in Span(list[i]) /\ x \in Span(list[j])
    BY <1>3, <1>6, <1>7
  <2> HIDE DEF x
  <2>2. list[i].network \in Nat /\ list[j].network \in Nat
    BY <1>1, <1>3
  <2>3. list[i] = list[j]
    <3>1. CASE list[i].network <= list[j].network
      BY <1>2, <1>5, <2>1, <3>1
    <3>2. CASE list[j].network <= list[i].network
      BY <1>2, <1>5, <2>1, <3>2
    <3> QED BY <2>2, <3>1, <3>2
  <2> QED BY <1>1, <2>3 DEF IsFewest, IsInjective
<1>8. f \in Injection(1 .. n, others)
  <2>1. f = [i \in 1 .. n |-> f[i]] /\ DOMAIN f = 1 .. n
    BY DEF f
  <2>2. f \in [1 .. n -> others]
    BY <1>6, <2>1
  <2> QED BY <1>7, <2>1, <2>2 DEF Injection, IsInjective
<1>9. Cardinality(1 .. n) <= Cardinality(others)
  BY <1>8, FS_Injection
<1>10. Cardinality(1 .. n) = n
  BY <1>1, FS_Interval
<1> QED BY <1>9, <1>10 DEF n

(* The typing part of IpAlloc's invariant that the routes need.            *)
ArgumentsTyped == subnet \in Pools /\ usedIps \subseteq Addresses /\ serverAddress \in Addresses

LEMMA ArgumentsStayTyped == LoopSpec => []ArgumentsTyped
<1>1. LoopInit => ArgumentsTyped
  BY DEF LoopInit, ArgumentsTyped
<1>2. ArgumentsTyped /\ [LoopNext]_loopVars => ArgumentsTyped'
  BY DEF ArgumentsTyped, LoopNext, Skip, Return, Throw, loopVars
<1> QED BY <1>1, <1>2, PTL DEF LoopSpec

(* The block of a single address.                                          *)
LEMMA HostBlock ==
  ASSUME NEW a \in Addresses
  PROVE  Block(a, 0) \in Blocks /\ Block(a, 0).network = a /\ Block(a, 0).broadcast = a
<1>1. a \in Nat /\ 0 \in 0 .. AddressBits /\ a % 2^0 = 0 /\ a + 2^0 - 1 = a
  BY SpaceSize, PowerZero, AddressBitsAssumption
<1>2. Block(a, 0) \in Blocks
  BY <1>1, BlocksAre
<1> QED BY <1>1, <1>2 DEF Block

(* AggregateMinimal holds of every call, whatever the pools, the reserved  *)
(* blocks, the widest route and the width of an address are.               *)
THEOREM AggregateIsMinimal == LoopSpec => []AggregateMinimal
<1>1. ArgumentsTyped => AggregateMinimal
  <2> SUFFICES ASSUME ArgumentsTyped PROVE AggregateMinimal
    OBVIOUS
  <2> DEFINE public == sanitizeCidrs(Routes)
             routed == aggregateCidrs(public)
  <2>1. Routes \in SUBSET Blocks
    BY HostBlock, RouteListsAssumption DEF Routes, ArgumentsTyped
  <2>2. public \in SUBSET Routes
    BY DEF sanitizeCidrs
  <2>3. public \in SUBSET Blocks
    BY <2>1, <2>2
  <2>4. IsFewest(aggregateCidrs(Routes), Covered(Routes))
    BY <2>1, AggregateIsFewest
  <2>5. IsFewest(routed, Covered(public))
    <3> HIDE DEF public
    <3> QED BY <2>3, AggregateIsFewest
  <2>6. Covered(ToSet(routed)) = Covered(public)
    <3> HIDE DEF public, routed
    <3> QED BY <2>3, <2>5, FewestCover DEF IsFewest
  <2>7. Covered(public) \cap Covered(Reserved) = {}
    <3>1. ASSUME NEW c \in public, NEW r \in Reserved, NEW x, x \in Span(c), x \in Span(r) PROVE FALSE
      <4>1. c \in Blocks /\ r \in Blocks /\ ~overlapsReserved(c)
        BY <2>3, RouteListsAssumption DEF sanitizeCidrs
      <4>2. c.network \in Nat /\ c.broadcast \in Nat /\ r.network \in Nat /\ r.broadcast \in Nat
        BY <4>1, BlockShape
      <4>3. c.network <= r.broadcast /\ r.network <= c.broadcast
        BY <3>1, <4>2 DEF Span
      <4> QED BY <4>1, <4>3 DEF overlapsReserved
    <3> HIDE DEF public
    <3> QED BY <3>1 DEF Covered
  <2>8. usedIps \ Covered(Reserved) \subseteq Covered(public)
    <3>1. ASSUME NEW a \in usedIps, a \notin Covered(Reserved) PROVE a \in Covered(public)
      <4> DEFINE host == Block(a, 0)
      <4>1. host \in Blocks /\ host.network = a /\ host.broadcast = a /\ a \in Nat
        BY HostBlock, SpaceSize DEF ArgumentsTyped
      <4>2. host \in Routes
        BY DEF Routes
      <4> HIDE DEF host
      <4>3. ~overlapsReserved(host)
        <5>1. ASSUME NEW r \in Reserved, a <= r.broadcast, r.network <= a PROVE FALSE
          <6>1. r.network \in Nat /\ r.broadcast \in Nat
            BY BlockShape, RouteListsAssumption
          <6>2. a \in Span(r)
            BY <4>1, <5>1, <6>1 DEF Span
          <6> QED BY <3>1, <6>2 DEF Covered
        <5> QED BY <4>1, <5>1 DEF overlapsReserved
      <4>4. host.broadcast - host.network < WidestRoute
        BY <4>1, RouteListsAssumption
      <4>5. host \in public /\ a \in Span(host)
        BY <4>1, <4>2, <4>3, <4>4 DEF sanitizeCidrs, Span
      <4> HIDE DEF public
      <4> QED BY <4>5 DEF Covered
    <3> QED BY <3>1
  <2> QED BY <2>4, <2>5, <2>6, <2>7, <2>8 DEF AggregateMinimal
<1> QED BY <1>1, ArgumentsStayTyped, PTL

(* ExcludeExact holds of every call: the server's own address is never     *)
(* routed, and no other address is lost with it.                           *)
THEOREM ExcludeIsExact == LoopSpec => []ExcludeExact
<1>1. ArgumentsTyped => ExcludeExact
  <2> SUFFICES ASSUME ArgumentsTyped PROVE ExcludeExact
    OBVIOUS
  <2>1. Routes \in SUBSET Blocks
    BY HostBlock, RouteListsAssumption DEF Routes, ArgumentsTyped
  <2>2. serverAddress \in Nat
    BY SpaceSize DEF ArgumentsTyped
  <2> QED BY <2>1, <2>2, ExcludeIsFewest DEF ExcludeExact
<1> QED BY <1>1, ArgumentsStayTyped, PTL
===============================================================================
