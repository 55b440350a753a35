-------------------------------- MODULE IpPool --------------------------------
(***************************************************************************)
(* IPv4 address pools, from apps/api/src/common/ip-alloc.util.ts.          *)
(*                                                                         *)
(* An address is the unsigned integer ipToInt makes of it: AddressBits is  *)
(* 32 in the program and small in a model.  Dotted notation is left out.   *)
(***************************************************************************)
EXTENDS Integers, FiniteSetsExt

CONSTANT AddressBits    \* the width of an address

ASSUME AddressBitsAssumption == AddressBits \in Nat \ {0}

Addresses == 0 .. 2^AddressBits - 1

(* nextFreeIp throws when it runs out of candidates: -1 is no address.     *)
Exhausted == -1

(* The block of addresses that share ip's first prefix bits.               *)
parseCidr(ip, prefix) ==
  LET size    == 2^(AddressBits - prefix)
      network == ip - (ip % size)
  IN  [network |-> network, broadcast |-> network + size - 1]

(* The candidates of nextFreeIp's loop.                                    *)
HostAddresses(subnet) == subnet.network + 1 .. subnet.broadcast - 1

FreeAddresses(subnet, serverAddress, usedIps) ==
  HostAddresses(subnet) \ (usedIps \cup {serverAddress})

(* The loop of nextFreeIp, in one step: the first candidate that is free.  *)
nextFreeIp(subnet, serverAddress, usedIps) ==
  LET free == FreeAddresses(subnet, serverAddress, usedIps)
  IN  IF free = {} THEN Exhausted ELSE Min(free)

(* Mutant: the server's own address is not subtracted.                     *)
poolCapacityWithServer(subnet) == Max({0, subnet.broadcast - subnet.network - 1})

poolCapacity(subnet) == Max({0, subnet.broadcast - subnet.network - 1 - 1})
===============================================================================
