----------------------------- MODULE IpPoolProofs -----------------------------
(***************************************************************************)
(* What nextFreeIp returns, for every pool and every set of used addresses *)
(***************************************************************************)
EXTENDS IpPool, FiniteSetTheorems, TLAPS

(* The least-number principle for sets, from the well-foundedness of       *)
(* strict inclusion: among the intervals 0 .. n, n in S, one is minimal.   *)
LEMMA NonemptyHasMin ==
  ASSUME NEW S \in SUBSET Nat, S # {}
  PROVE  \E m \in S : \A n \in S : m <= n
<1> DEFINE T == {0 .. n : n \in S}
           R == StrictSubsetOrdering(Nat)
<1>1. /\ T # {}
      /\ T \subseteq FiniteSubsetsOf(Nat)
  <2>1. \A n \in Nat : 0 .. n \in SUBSET Nat /\ IsFiniteSet(0 .. n)
    BY FS_Interval
  <2>2. \A n \in S : 0 .. n \in FiniteSubsetsOf(Nat)
    BY <2>1 DEF FiniteSubsetsOf
  <2> QED  BY <2>2
<1>2. IsWellFoundedOn(R, FiniteSubsetsOf(Nat))
  BY FS_StrictSubsetOrderingWellFounded
<1>3. \E U \in T : \A V \in T : ~(<<V, U>> \in R)
  <2> HIDE DEF T, R
  <2> QED  BY <1>1, <1>2, WFMin
<1>4. PICK m \in S : \A V \in T : ~(<<V, 0 .. m>> \in R)
  BY <1>3
<1>5. ASSUME NEW n \in S, n < m  PROVE FALSE
  <2>1. 0 .. n \subseteq 0 .. m /\ m \in 0 .. m /\ m \notin 0 .. n
    BY <1>5
  <2>2. <<0 .. n, 0 .. m>> \in R
    BY <2>1 DEF StrictSubsetOrdering
  <2> QED  BY <1>4, <2>2
<1> QED  BY <1>5

(* The address nextFreeIp returns is a host address of the pool, is neither*)
(* the server's own nor in use, and every host address below it is taken;  *)
(* it throws only when no host address is free.                            *)
THEOREM NextFreeIpCorrect ==
  ASSUME NEW subnet \in [network : Nat, broadcast : Nat],
         NEW serverAddress, NEW usedIps,
         NEW a, a = nextFreeIp(subnet, serverAddress, usedIps)
  PROVE  LET free == FreeAddresses(subnet, serverAddress, usedIps) IN
         \/ a = Exhausted /\ free = {}
         \/ a \in free /\ \A b \in free : a <= b
<1> DEFINE free == FreeAddresses(subnet, serverAddress, usedIps)
<1>1. free \in SUBSET Nat
  BY DEF FreeAddresses, HostAddresses
<1>2. CASE free = {}
  BY <1>2 DEF nextFreeIp
<1>3. CASE free # {}
  <2>1. \E m \in free : \A n \in free : m <= n
    <3> HIDE DEF free
    <3> QED  BY <1>1, <1>3, NonemptyHasMin
  <2>2. a = Min(free)
    BY <1>3 DEF nextFreeIp
  <2> HIDE DEF free
  <2>3. a \in free /\ \A b \in free : a <= b
    BY <2>1, <2>2 DEF Min
  <2> QED  BY <2>3 DEF free
<1> QED  BY <1>2, <1>3
===============================================================================
