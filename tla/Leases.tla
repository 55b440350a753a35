-------------------------------- MODULE Leases --------------------------------
(***************************************************************************)
(* What the table of peers is (model WireguardPeer in                      *)
(* apps/api/prisma/schema.prisma, PeersService): a ledger of addresses.  A *)
(* new key is given an address of a server that nobody holds, for one user,*)
(* and keeps it unchanged until the lease ends, once and for all.          *)
(***************************************************************************)
CONSTANTS Keys, Users, Servers, Ips

VARIABLES
  held,      \* the leases that run
  used       \* the keys that have had a lease

Init == held = {} /\ used = {}

Lease(k, u, s, a) ==
  /\ k \notin used
  /\ \A l \in held : ~(l.server = s /\ l.ip = a)
  /\ held' = held \cup {[key |-> k, user |-> u, server |-> s, ip |-> a]}
  /\ used' = used \cup {k}

(* One lease is revoked or deleted, or those of a server end together.     *)
End(ended) ==
  /\ held' = held \ ended
  /\ UNCHANGED used

Next ==
  \/ \E k \in Keys, u \in Users, s \in Servers, a \in Ips : Lease(k, u, s, a)
  \/ \E ended \in SUBSET held : End(ended)

Spec == Init /\ [][Next]_<<held, used>>
===============================================================================
