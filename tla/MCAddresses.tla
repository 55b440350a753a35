------------------------------ MODULE MCAddresses -----------------------------
(***************************************************************************)
(* Peers, and the address arithmetic it calls: nextFreeIp over every CIDR  *)
(* block of a three-bit address space, /0 to /3, every server address and  *)
(* every set of used addresses.  The same blocks and addresses, taken as a *)
(* list of routes and an address to keep out of it, are the inputs of      *)
(* RouteLists.  The two share no state, and each moves while the other     *)
(* rests, so TLC has the sum of their states to go through.                *)
(***************************************************************************)
EXTENDS MCPeers, RouteLists

MCPools == {parseCidr(ip, prefix) : ip \in Addresses, prefix \in 0 .. AddressBits}

MCReserved == {Block(0, 0), Block(3, 0), Block(6, 1)}   \* both ends, and in between

LoopRests == Called /\ subnet = parseCidr(0, 0) /\ serverAddress = 0 /\ usedIps = {}

PeersMove == LoopRests /\ Next /\ UNCHANGED loopVars
LoopMove  == Init /\ LoopNext /\ UNCHANGED vars

AddressesSpec == Init /\ LoopInit /\ [][PeersMove \/ LoopMove]_<<vars, loopVars>>
===============================================================================
