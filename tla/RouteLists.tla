------------------------------ MODULE RouteLists -------------------------------
(***************************************************************************)
(* What the lists of blocks in Cidr are for: routes, taken from the        *)
(* arguments of one call of nextFreeIp, and an address to keep out of them *)
(***************************************************************************)
EXTENDS IpAlloc, Cidr

ASSUME RouteListsAssumption ==
  /\ Pools \subseteq Blocks        \* parseCidr made them
  /\ Reserved \subseteq Blocks     \* RESERVED_RANGES, by parseCidr as well
  /\ WidestRoute \in Nat \ {0}

Called == result = Running /\ candidate = subnet.network + 1
Routes == {subnet} \cup {Block(a, 0) : a \in usedIps}

(* aggregateCidrs returns the fewest blocks that cover exactly what its    *)
(* arguments cover ("Collapse overlapping/adjacent CIDRs into the minimal  *)
(* equivalent set"), up to the last address of all; so when sanitizeCidrs  *)
(* comes first, every narrow public block is routed, and joining neighbours*)
(* brings no reserved address back.                                        *)
AggregateMinimal ==
  Called =>
    LET public == sanitizeCidrs(Routes)  routed == aggregateCidrs(public) IN
    /\ IsFewest(aggregateCidrs(Routes), Covered(Routes))
    /\ IsFewest(routed, Covered(public))
    /\ Covered(ToSet(routed)) \cap Covered(Reserved) = {}
    /\ usedIps \ Covered(Reserved) \subseteq Covered(ToSet(routed))

(* excludeIpFromCidrs covers everything but the address ("must always stay *)
(* outside AllowedIPs"), again with the fewest blocks, also at both ends of*)
(* the address space.                                                      *)
ExcludeExact ==
  Called => IsFewest(excludeIpFromCidrs(Routes, serverAddress), Covered(Routes) \ {serverAddress})
===============================================================================
