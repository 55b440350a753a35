-------------------------------- MODULE MCPeers -------------------------------
(***************************************************************************)
(* Instances of Peers for TLC: a /29 pool cut down to the host addresses a *)
(* run needs, one tariff, one country unless said otherwise.               *)
(***************************************************************************)
EXTENDS Peers, TLC

CONSTANTS c1, c2

MCSubnet    == [network |-> 0, broadcast |-> 4]    \* hosts 1, 2 and 3
MCIps       == HostAddresses(MCSubnet)

WideSubnet  == [network |-> 0, broadcast |-> 5]    \* and 4
WideIps     == HostAddresses(WideSubnet)

OneCountry  == [s \in Servers |-> c1]

KeySymmetry == Permutations(Keys)
Symmetry    == Permutations(Keys) \cup Permutations(Requests)
===============================================================================
