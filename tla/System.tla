-------------------------------- MODULE System --------------------------------
(***************************************************************************)
(* The panel as one process: Payments with the subscriptions they give,    *)
(* and Peers, which asks getActive of the same table before it creates a   *)
(* peer (apps/api/src/peers/peers.service.ts) and not again afterwards.    *)
(* Whom Peers finds subscribed is what Subscriptions holds at that moment. *)
(* Subscriptions that admins give away are left out.                       *)
(***************************************************************************)
EXTENDS Payments

CONSTANTS Clients, Nobody, Servers, Keys, Ips, NoKey, Faults, AddressBits, Subnet,
          ServerAddress, DeviceLimit, MaxPeers, Country, AllowedCountries, MaxAbandoned,
          PeerEvents,   \* what happens around PeersService: Events of Peers
          MaxEnds       \* bound: ends of the process

ASSUME SystemAssumption == "expire" \in PeerEvents   \* what PaymentsMove does to Peers

VARIABLES routes, conf, calls, rows, issued, req, servers,
          ended         \* history: how often the process has ended

peerVars   == <<routes, conf, calls, rows, issued, req, servers>>
systemVars == <<vars, peerVars, ended>>

Subscribers == {u \in Users : getActive(u) # {}}

Peers == INSTANCE Peers WITH Events <- PeerEvents, subscribed <- Subscribers

SystemInit == Init /\ Peers!Init /\ ended = 0

(* PeersService, the agents and the nodes.                                 *)
RequestMove(r) == UNCHANGED <<vars, ended>> /\ Peers!RequestStep(r)

PeersMove ==
  /\ UNCHANGED <<vars, ended>>
  /\ \/ \E r \in Clients : Peers!Begin(r) \/ Peers!RequestStep(r)
     \/ Peers!AgentNext
     \/ \E s \in Servers : Peers!HealthChanges(s) \/ Peers!ServerDeleted(s)

(* PaymentsService, the gateway, the clock and the sweep.                  *)
PaymentsMove ==
  /\ \/ \E h \in Handlers : HandlerStep(h) \/ \E p \in Payments : Request(h, p)
     \/ \E p \in Payments : Settle(p) \/ WebhookIgnored(p)
     \/ Around
  /\ UNCHANGED <<peerVars, ended>>

(* The API process ends, and with it every request of both services.       *)
ProcessEnds ==
  /\ ended < MaxEnds
  /\ ended' = ended + 1
  /\ IF \A h \in Handlers : At(h, "idle") THEN UNCHANGED vars ELSE Crash
  /\ Peers!PanelCrash

SystemNext == PeersMove \/ PaymentsMove \/ ProcessEnds

SystemSpec == SystemInit /\ [][SystemNext]_systemVars

(* Node's event loop runs every handler that can run, and axios's timeout  *)
(* ends a call the agent never answers.  The agents promise nothing.       *)
FairSystemSpec == SystemSpec /\ \A r \in Clients : WF_systemVars(RequestMove(r))

-------------------------------------------------------------------------------
(* From the gateway to the node: who has a subscription, has or had a peer,*)
(* or is about to get one, has a payment of his own that was granted, and  *)
(* that had a transaction named with it which the gateway confirms as paid,*)
(* unless an admin marks payments.  What a request found out about its user*)
(* is not asked again, while subscriptions end, payments fail and are      *)
(* repeated, and the process ends.                                         *)
PaidFor(u) ==
  \E p \in Payments : /\ Payer[p] = u /\ given[p] > 0
                      /\ "markPaid" \in Events \/ SeenPaid(p)

GettingPeer(u) ==
  \E r \in Clients : req[r].user = u /\ req[r].pc \in Peers!CreatePcs \ {"getActive"}

ServiceIsPaidFor ==
  \A u \in Users :
    \/ u \in Subscribers
    \/ GettingPeer(u)
    \/ \E k \in Keys : rows[k].user = u
    => PaidFor(u)

(* Every request for a peer ends, whatever the rest of the panel does.     *)
RequestsEnd == \A r \in Clients : []<>(req[r].pc = "idle")

(* A revocation or deletion that has begun takes the peer out of service in*)
(* the panel even when the agent never answers, unless the process ends.   *)
RemovalCompletes ==
  \A r \in Clients, k \in Keys, n \in 0 .. MaxEnds :
    (req[r].pc = "findNode" /\ req[r].peer = k /\ ended = n)
      ~> (~Peers!IsActive(k) \/ ended > n)
===============================================================================
