------------------------------- MODULE IpAlloc --------------------------------
(***************************************************************************)
(* nextFreeIp (apps/api/src/common/ip-alloc.util.ts) as the loop it is: one*)
(* step per candidate.  IpPool!nextFreeIp is the same function in one step;*)
(* this module shows that the loop computes it.                            *)
(***************************************************************************)
EXTENDS IpPool

CONSTANT Pools    \* the subnets an operator may configure: WG_SUBNET_CIDR

ASSUME PoolsAssumption == Pools \subseteq [network : Nat, broadcast : Nat]

VARIABLES
  subnet,         \* parseCidr of the first argument
  serverAddress,  \* serverInt
  usedIps,        \* the addresses of the server's ACTIVE rows
  candidate,      \* the loop variable
  result          \* what the function returned, or Running

loopVars == <<subnet, serverAddress, usedIps, candidate, result>>

Running == -2

Results == HostAddresses(subnet) \cup {Exhausted, Running}

LoopTypeOK ==
  /\ subnet \in Pools
  /\ serverAddress \in Addresses
  /\ usedIps \subseteq Addresses
  /\ candidate \in Nat
  /\ result \in Results

LoopInit ==
  /\ subnet \in Pools
  /\ serverAddress \in Addresses
  /\ usedIps \in SUBSET Addresses
  /\ candidate = subnet.network + 1
  /\ result = Running

(* The loop's test and body.                                               *)
InLoop == result = Running /\ candidate < subnet.broadcast

(* Mutant: the server's own address may be leased.                         *)
IsUsedByPeer(a) == a \in usedIps

IsUsed(a) == a \in usedIps \cup {serverAddress}

Skip ==
  /\ InLoop
  /\ IsUsed(candidate)
  /\ candidate' = candidate + 1
  /\ UNCHANGED <<subnet, serverAddress, usedIps, result>>

Return ==
  /\ InLoop
  /\ ~IsUsed(candidate)
  /\ result' = candidate
  /\ UNCHANGED <<subnet, serverAddress, usedIps, candidate>>

Throw ==
  /\ result = Running
  /\ candidate >= subnet.broadcast
  /\ result' = Exhausted
  /\ UNCHANGED <<subnet, serverAddress, usedIps, candidate>>

LoopNext == Skip \/ Return \/ Throw

LoopSpec == LoopInit /\ [][LoopNext]_loopVars

-----------------------------------------------------------------------------
(* The loop returns exactly what nextFreeIp promises: the first address    *)
(* that is free, or the exception when there is none.                      *)
LoopCorrect ==
  result # Running => result = nextFreeIp(subnet, serverAddress, usedIps)

(* poolCapacity is exact: when the server's address is one of the pool's   *)
(* host addresses, nextFreeIp throws after poolCapacity(subnet) addresses  *)
(* are leased and not before, for every prefix down to /32.                *)
CapacityExact ==
  LET leased == (usedIps \cap HostAddresses(subnet)) \ {serverAddress} IN
  result # Running /\ serverAddress \in HostAddresses(subnet) =>
    (result = Exhausted) = (Cardinality(leased) = poolCapacity(subnet))

(* The conjunct that makes LoopCorrect inductive: everything the loop has  *)
(* passed is taken.                                                        *)
PassedAreUsed ==
  /\ subnet.network < candidate
  /\ \A a \in subnet.network + 1 .. candidate - 1 : IsUsed(a)

LoopInv == LoopTypeOK /\ PassedAreUsed /\ LoopCorrect
===============================================================================
