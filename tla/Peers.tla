-------------------------------- MODULE Peers ---------------------------------
(***************************************************************************)
(* PeersService (apps/api/src/peers/peers.service.ts): the panel creates,  *)
(* recreates, revokes and deletes WireGuard peers, composed with the agents*)
(* of the nodes (module NodeAgent).                                        *)
(*                                                                         *)
(* Requests run concurrently.  A request is a slot with a program counter; *)
(* one action runs from one `await` to the next.  A peer is identified by  *)
(* its public key, generated with the row's id and as unique.              *)
(***************************************************************************)
EXTENDS NodeAgent, IpPool

CONSTANTS
  Users,
  Subnet,            \* parseCidr(WG_SUBNET_CIDR)
  ServerAddress,     \* WG_SERVER_ADDRESS
  DeviceLimit,       \* tariff.deviceLimit
  MaxPeers,          \* server.maxPeers
  Country,           \* Country[s]: the country of a server
  AllowedCountries,  \* tariff.allowedCountries; empty: every country
  Events,            \* what happens around the service, of PanelEvents
  MaxAbandoned       \* bound: calls still running whose caller has given up

Requests == Clients  \* a request has at most one agent call outstanding

PanelEvents == {"timeout",       \* axios gives up after 15 s
                "panelCrash",    \* the API process restarts
                "expire",        \* subscriptions end, or start again
                "serverDown",    \* the health watchdog marks a server
                "serverDeleted", \* an admin deletes a server
                "adminDelete"}   \* an admin deletes a peer

ASSUME PeersAssumption ==
  /\ Subnet \in [network : Nat, broadcast : Nat]
  /\ Ips = HostAddresses(Subnet)
  /\ DeviceLimit \in Nat
  /\ MaxPeers \in Nat
  /\ MaxAbandoned \in Nat
  /\ IsFiniteSet(Keys)
  /\ IsFiniteSet(Clients)
  /\ Null \notin Users \cup Servers \cup Keys

VARIABLES
  rows,      \* the wireguard_peers table, by public key
  issued,    \* the keys generated so far
  req,       \* the requests in progress
  subscribed,\* the users getActive finds a subscription for
  servers    \* servers[s]: status of the row of s, GONE when deleted

envVars   == <<subscribed, servers>>
panelVars == <<rows, issued, req>>
vars      == <<agentVars, panelVars, envVars>>

(* "NONE" until the row is inserted, "DELETED" after it is deleted.        *)
Rows == [status : {"NONE", "ACTIVE", "REVOKED", "DELETED"},
         user : Users \cup {Null}, server : Servers \cup {Null},
         ip : Ips \cup {Null}]

NoRow == [status |-> "NONE", user |-> Null, server |-> Null, ip |-> Null]

CreatePcs == {"getActive", "countPeers", "findServer", "findPeers", "adding",
              "inserting"}
RemovePcs == {"loadOwned", "findNode", "removing", "closing"}

RequestRecords ==
  [op : {"none", "create", "recreate", "revoke", "adminDelete"},
   pc : {"idle"} \cup CreatePcs \cup RemovePcs,
   user : Users \cup {Null}, server : Servers \cup {Null},
   peer : Keys \cup {Null},    \* the existing peer the request is about
   key : Keys \cup {Null},     \* the key generated for the new peer
   ip : Ips \cup {Null}]       \* the address allocated to it

Idle == [op |-> "none", pc |-> "idle", user |-> Null, server |-> Null,
         peer |-> Null, key |-> Null, ip |-> Null]

TypeOK ==
  /\ AgentTypeOK
  /\ rows \in [Keys -> Rows]
  /\ issued \subseteq Keys
  /\ req \in [Requests -> RequestRecords]
  /\ subscribed \subseteq Users
  /\ servers \in [Servers -> {"ACTIVE", "UNREACHABLE", "GONE"}]

Init ==
  /\ AgentInit
  /\ rows = [k \in Keys |-> NoRow]
  /\ issued = {}
  /\ req = [r \in Requests |-> Idle]
  /\ subscribed \in SUBSET Users
  /\ servers = [s \in Servers |-> "ACTIVE"]

-----------------------------------------------------------------------------
Exists(k)   == rows[k].status \in {"ACTIVE", "REVOKED"}
IsActive(k) == rows[k].status = "ACTIVE"
Owned(k, u) == IsActive(k) /\ rows[k].user = u        \* loadOwned succeeds

ActiveOf(u) == {k \in Keys : IsActive(k) /\ rows[k].user = u}
ActiveOn(s) == {k \in Keys : IsActive(k) /\ rows[k].server = s}

At(r, pc)   == req[r].pc = pc
Goto(r, pc) == req' = [req EXCEPT ![r].pc = pc]
Finish(r)   == req' = [req EXCEPT ![r] = Idle]

(* A read: on success the request goes on, else the service throws.        *)
Check(r, from, ok, to) ==
  /\ At(r, from)
  /\ IF ok THEN Goto(r, to) ELSE Finish(r)
  /\ UNCHANGED <<agentVars, rows, issued, envVars>>

(* The bound on creates: a key is left for each create on its way to one.  *)
KeyLeft ==
  Cardinality({r \in Requests : req[r].pc \in {"getActive", "countPeers", "findServer",
                                               "findPeers"}})
    < Cardinality(Keys \ issued)

(* Mutant: the subscription is looked for when a peer is recreated only.   *)
BeginCreateUnsubscribed(r, u, s) ==
  /\ At(r, "idle")
  /\ KeyLeft
  /\ req' = [req EXCEPT ![r] = [Idle EXCEPT !.op = "create", !.pc = "countPeers",
                                            !.user = u, !.server = s]]
  /\ UNCHANGED <<agentVars, rows, issued, envVars>>

(* POST /peers, once getActive has found a subscription                    *)
BeginCreate(r, u, s) ==
  /\ At(r, "idle")
  /\ KeyLeft
  /\ u \in subscribed
  /\ req' = [req EXCEPT ![r] = [Idle EXCEPT !.op = "create", !.pc = "countPeers",
                                            !.user = u, !.server = s]]
  /\ UNCHANGED <<agentVars, rows, issued, envVars>>

(* POST /peers/:id/recreate, once loadOwned has succeeded                  *)
BeginRecreate(r, u, k) ==
  /\ At(r, "idle")
  /\ KeyLeft
  /\ Owned(k, u)
  /\ req' = [req EXCEPT ![r] = [Idle EXCEPT !.op = "recreate", !.pc = "getActive",
                                  !.user = u, !.server = rows[k].server, !.peer = k]]
  /\ UNCHANGED <<agentVars, rows, issued, envVars>>

(* DELETE /peers/:id, once loadOwned has succeeded                         *)
BeginRevoke(r, u, k) ==
  /\ At(r, "idle")
  /\ Owned(k, u)
  /\ req' = [req EXCEPT ![r] = [Idle EXCEPT !.op = "revoke", !.pc = "findNode",
                                  !.user = u, !.server = rows[k].server, !.peer = k]]
  /\ UNCHANGED <<agentVars, rows, issued, envVars>>

(* DELETE /admin/peers/:id: a peer that is not ACTIVE is not on its node   *)
BeginAdminDelete(r, k) ==
  /\ "adminDelete" \in Events
  /\ At(r, "idle")
  /\ Exists(k)
  /\ req' = [req EXCEPT ![r] = [Idle EXCEPT !.op = "adminDelete",
                                  !.pc = IF IsActive(k) THEN "findNode" ELSE "closing",
                                  !.user = rows[k].user,
                                  !.server = rows[k].server, !.peer = k]]
  /\ UNCHANGED <<agentVars, rows, issued, envVars>>

-----------------------------------------------------------------------------
(* create; the first read again, when it is recreate that calls it         *)
GetActive(r) == Check(r, "getActive", req[r].user \in subscribed, "countPeers")

(* Mutant: the device limit is off by one.                                 *)
CountPeersOffByOne(r) ==
  Check(r, "countPeers",
        Cardinality(ActiveOf(req[r].user) \ {req[r].peer}) <= DeviceLimit,
        "findServer")

CountPeers(r) ==
  Check(r, "countPeers",
        Cardinality(ActiveOf(req[r].user) \ {req[r].peer}) < DeviceLimit,
        "findServer")

CountryAllowed(s) == AllowedCountries = {} \/ Country[s] \in AllowedCountries

FindServer(r) ==
  Check(r, "findServer",
        servers[req[r].server] = "ACTIVE" /\ CountryAllowed(req[r].server),
        "findPeers")

UsedIps(s) == {rows[k].ip : k \in ActiveOn(s)} \ {Null}

HasCapacity(s, replaced) == Cardinality(ActiveOn(s) \ {replaced}) < MaxPeers

CanAllocate(s, replaced) ==
  /\ HasCapacity(s, replaced)
  /\ nextFreeIp(Subnet, ServerAddress, UsedIps(s)) # Exhausted

(* The last read before the agent call: capacity, address, keys, request.  *)
FindPeers(r) ==
  LET s  == req[r].server
      ip == nextFreeIp(Subnet, ServerAddress, UsedIps(s))
  IN  /\ At(r, "findPeers")
      /\ CanAllocate(s, req[r].peer)
      /\ \E k \in Keys \ issued :
           /\ issued' = issued \cup {k}
           /\ addPeer(r, s, k, ip)
           /\ req' = [req EXCEPT ![r].pc = "adding", ![r].key = k, ![r].ip = ip]
      /\ UNCHANGED <<routes, conf, rows, envVars>>

FindPeersThrows(r) ==
  /\ At(r, "findPeers")
  /\ ~CanAllocate(req[r].server, req[r].peer)
  /\ Finish(r)
  /\ UNCHANGED <<agentVars, rows, issued, envVars>>

AddPeerOk(r) ==
  /\ At(r, "adding")
  /\ Answered(r)
  /\ Receive(r)
  /\ Goto(r, "inserting")
  /\ UNCHANGED <<routes, conf, rows, issued, envVars>>

(* Mutants: the row is inserted although the node refused the peer; and    *)
(* recreate goes on to revoke when its create has failed.                  *)
AddPeerFailsInserts(r) ==
  /\ At(r, "adding")
  /\ Failed(r)
  /\ Receive(r)
  /\ Goto(r, "inserting")
  /\ UNCHANGED <<routes, conf, rows, issued, envVars>>

AddPeerFailsRevokes(r) ==
  /\ At(r, "adding")
  /\ Failed(r)
  /\ Receive(r)
  /\ IF req[r].op = "recreate" THEN Goto(r, "loadOwned") ELSE Finish(r)
  /\ UNCHANGED <<routes, conf, rows, issued, envVars>>

AddPeerFails(r) ==
  /\ At(r, "adding")
  /\ Failed(r)
  /\ Receive(r)
  /\ Finish(r)
  /\ UNCHANGED <<routes, conf, rows, issued, envVars>>

(* Mutant: no unique index on the address.                                 *)
InsertableAnywhere(s, ip) == servers[s] # "GONE"

(* The insert's constraints: the foreign key and @@unique([serverId,       *)
(* assignedIp]), in which nulls do not collide.                            *)
Insertable(s, ip) ==
  /\ servers[s] # "GONE"
  /\ \A k \in Keys : Exists(k) /\ rows[k].server = s => rows[k].ip # ip

(* Mutant: the address is allocated again for the insert.                  *)
NewRowReallocated(r) ==
  [status |-> "ACTIVE", user |-> req[r].user, server |-> req[r].server,
   ip |-> nextFreeIp(Subnet, ServerAddress, UsedIps(req[r].server))]

NewRow(r) == [status |-> "ACTIVE", user |-> req[r].user,
              server |-> req[r].server, ip |-> req[r].ip]

Insert(r) ==
  LET new == NewRow(r)
  IN  /\ At(r, "inserting")
      /\ IF Insertable(new.server, new.ip)
           THEN /\ rows' = [rows EXCEPT ![req[r].key] = new]
                /\ IF req[r].op = "recreate" THEN Goto(r, "loadOwned") ELSE Finish(r)
           ELSE Finish(r) /\ UNCHANGED rows
      /\ UNCHANGED <<agentVars, issued, envVars>>

-----------------------------------------------------------------------------
(* revoke, also as the second half of recreate, and adminDelete            *)
(* Mutant: recreate revokes the old row and forgets its node.              *)
LoadOwnedForgetsNode(r) ==
  Check(r, "loadOwned", Owned(req[r].peer, req[r].user), "closing")

LoadOwned(r) ==
  Check(r, "loadOwned", Owned(req[r].peer, req[r].user), "findNode")

FindNode(r) ==
  /\ At(r, "findNode")
  /\ IF servers[req[r].server] = "GONE"
       THEN Goto(r, "closing") /\ UNCHANGED calls
       ELSE Goto(r, "removing") /\ removePeer(r, req[r].server, req[r].peer)
  /\ UNCHANGED <<routes, conf, rows, issued, envVars>>

(* .catch(() => undefined): whatever the answer, the row is closed.        *)
RemovePeerReturns(r) ==
  /\ At(r, "removing")
  /\ Answered(r) \/ Failed(r)
  /\ Receive(r)
  /\ Goto(r, "closing")
  /\ UNCHANGED <<routes, conf, rows, issued, envVars>>

(* Mutant: a revoked peer keeps its address.                               *)
RevokedKeepsIp(row) == [row EXCEPT !.status = "REVOKED"]

Revoked(row) == [row EXCEPT !.status = "REVOKED", !.ip = Null]

MarkRevoked(r) ==
  /\ At(r, "closing")
  /\ req[r].op \in {"revoke", "recreate"}
  /\ rows' = IF Exists(req[r].peer)
               THEN [rows EXCEPT ![req[r].peer] = Revoked(@)]
               ELSE rows
  /\ Finish(r)
  /\ UNCHANGED <<agentVars, issued, envVars>>

Deleted(row) == [row EXCEPT !.status = "DELETED", !.ip = Null]

DeleteRow(r) ==
  /\ At(r, "closing")
  /\ req[r].op = "adminDelete"
  /\ rows' = IF Exists(req[r].peer)
               THEN [rows EXCEPT ![req[r].peer] = Deleted(@)]
               ELSE rows
  /\ Finish(r)
  /\ UNCHANGED <<agentVars, issued, envVars>>

-----------------------------------------------------------------------------
(* A call that outlives its client: the panel sees an error, the agent does*)
(* not see anything.                                                       *)
MayAbandon(clients) ==
  Cardinality({c \in calls : c.client \in clients \cup {Nobody}}) <= MaxAbandoned

(* Mutants: the axios client has no timeout for adding a peer; and the     *)
(* error of a call that removes one is not caught.                         *)
TimeoutOfRemove(r) ==
  /\ "timeout" \in Events
  /\ MayAbandon({r})
  /\ At(r, "removing")
  /\ Goto(r, "closing")
  /\ Abandon({r})
  /\ UNCHANGED <<routes, conf, rows, issued, envVars>>

TimeoutThrows(r) ==
  /\ "timeout" \in Events
  /\ MayAbandon({r})
  /\ At(r, "adding") \/ At(r, "removing")
  /\ Finish(r)
  /\ Abandon({r})
  /\ UNCHANGED <<routes, conf, rows, issued, envVars>>

Timeout(r) ==
  /\ "timeout" \in Events
  /\ MayAbandon({r})
  /\ \/ At(r, "adding") /\ Finish(r)
     \/ At(r, "removing") /\ Goto(r, "closing")
  /\ Abandon({r})
  /\ UNCHANGED <<routes, conf, rows, issued, envVars>>

PanelCrash ==
  /\ "panelCrash" \in Events
  /\ MayAbandon(Requests)
  /\ req' = [r \in Requests |-> Idle]
  /\ Abandon(Requests)
  /\ UNCHANGED <<routes, conf, rows, issued, envVars>>

(* Subscriptions end, several at a time, and start.                        *)
SubscriptionsChange ==
  /\ "expire" \in Events
  /\ subscribed' \in SUBSET Users
  /\ UNCHANGED <<agentVars, panelVars, servers>>

HealthChanges(s) ==
  /\ "serverDown" \in Events
  /\ servers[s] # "GONE"
  /\ servers' = [servers EXCEPT ![s] = IF @ = "ACTIVE" THEN "UNREACHABLE" ELSE "ACTIVE"]
  /\ UNCHANGED <<agentVars, panelVars, subscribed>>

(* The rows go with the server (onDelete: Cascade); its agent is not told. *)
ServerDeleted(s) ==
  /\ "serverDeleted" \in Events
  /\ servers[s] # "GONE"
  /\ servers' = [servers EXCEPT ![s] = "GONE"]
  /\ rows' = [k \in Keys |-> IF Exists(k) /\ rows[k].server = s
                               THEN Deleted(rows[k]) ELSE rows[k]]
  /\ UNCHANGED <<agentVars, issued, req, subscribed>>

Begin(r) ==
  \/ \E u \in Users, s \in Servers : BeginCreate(r, u, s)
  \/ \E u \in Users, k \in Keys : BeginRecreate(r, u, k) \/ BeginRevoke(r, u, k)
  \/ \E k \in Keys : BeginAdminDelete(r, k)

RequestStep(r) ==
  \/ GetActive(r) \/ CountPeers(r) \/ FindServer(r) \/ FindPeers(r)
  \/ FindPeersThrows(r) \/ AddPeerOk(r) \/ AddPeerFails(r) \/ Insert(r)
  \/ LoadOwned(r) \/ FindNode(r) \/ RemovePeerReturns(r)
  \/ MarkRevoked(r) \/ DeleteRow(r) \/ Timeout(r)

EnvStep ==
  \/ PanelCrash
  \/ SubscriptionsChange
  \/ \E s \in Servers : HealthChanges(s) \/ ServerDeleted(s)

AgentNext == AgentStep /\ UNCHANGED <<panelVars, envVars>>

Next ==
  \/ \E r \in Requests : Begin(r) \/ RequestStep(r)
  \/ AgentNext
  \/ EnvStep

Spec == Init /\ [][Next]_vars

-----------------------------------------------------------------------------
(* What holds whatever fails and however requests interleave.              *)

(* The table keeps the ledger of Leases: a peer that was created keeps its *)
(* user, server and address, alone, until it is over, and no request that  *)
(* is late, repeated or interrupted brings it back, moves it or doubles it.*)
Ledger == INSTANCE Leases WITH
  held <- {[key |-> k, user |-> rows[k].user, server |-> rows[k].server, ip |-> rows[k].ip] :
             k \in {j \in Keys : IsActive(j)}},
  used <- {k \in Keys : rows[k].status # "NONE"}

KeepsLedger == Ledger!Spec

(* No two ACTIVE peers of a server hold the same address, although the     *)
(* address is chosen long before the row is inserted: the unique index     *)
(* turns the loser of a race away.                                         *)
NoSharedAddress ==
  \A j, k \in Keys :
    /\ j # k
    /\ IsActive(j) /\ IsActive(k)
    /\ rows[j].server = rows[k].server
    => rows[j].ip # rows[k].ip

(* An address is held exactly by ACTIVE rows: revoking frees it for the    *)
(* allocator, which looks at ACTIVE rows, and for the unique index, which  *)
(* looks at all of them.                                                   *)
AddressHeldIffActive ==
  \A k \in Keys : IsActive(k) <=> rows[k].ip # Null

(* A recreate touches the old peer only when its replacement has been      *)
(* stored: an unavailable node or a refused insert leaves the old peer be. *)
RecreateStoresFirst ==
  \A r \in Requests :
    req[r].op = "recreate" /\ req[r].pc \in RemovePcs =>
      /\ req[r].key # Null
      /\ rows[req[r].key].status # "NONE"

(* A node, and the file it will boot from, route a stored peer at the      *)
(* address its row records and at no other, on its own server only.        *)
RouteMatchesRow ==
  \A s \in Servers, a \in Ips :
    \A k \in {routes[s][a], conf[s][a]} \ {NoKey} :
      IsActive(k) => rows[k].server = s /\ rows[k].ip = a

(* Creates that have passed the device check, or the capacity check, and   *)
(* not yet inserted their row.                                             *)
PendingOf(u) == {r \in Requests : /\ req[r].pc \in {"findServer", "findPeers", "adding",
                                                    "inserting"}
                                  /\ req[r].user = u}
PendingOn(s) == {r \in Requests : /\ req[r].pc \in {"adding", "inserting"}
                                  /\ req[r].server = s}

(* The checks are made before the agent call and not again, so concurrent  *)
(* requests can pass them together; the excess is at most one peer for each*)
(* request, and a recreate alone accounts for one.                         *)
DeviceLimitExcess ==
  \A u \in Users :
    Cardinality(ActiveOf(u)) + Cardinality(PendingOf(u))
      <= DeviceLimit + Cardinality(Requests)

CapacityExcess ==
  \A s \in Servers :
    Cardinality(ActiveOn(s)) + Cardinality(PendingOn(s))
      <= MaxPeers + Cardinality(Requests)

-----------------------------------------------------------------------------
(* What holds with one request at a time, or with agents that answer.      *)

(* The device limit: at most deviceLimit ACTIVE peers per user, one more   *)
(* while a recreate has stored the new peer and not yet revoked the old.   *)
Replacing(u) == {r \in Requests : /\ req[r].op = "recreate" /\ req[r].user = u
                                  /\ req[r].pc \in RemovePcs}

DeviceLimitKept ==
  \A u \in Users :
    Cardinality(ActiveOf(u)) <= DeviceLimit + Cardinality(Replacing(u))

(* Every ACTIVE peer is served: its node routes its address to its key,    *)
(* unless a request is taking it down.                                     *)
BeingRemoved(k) == \E r \in Requests : /\ req[r].peer = k
                                       /\ req[r].pc \in {"removing", "closing"}

ActivePeersRouted ==
  \A k \in Keys : IsActive(k) /\ ~BeingRemoved(k) =>
    routes[rows[k].server][rows[k].ip] = k

(* The address chosen before the agent call is still free at the insert.   *)
InsertAccepted ==
  \A r \in Requests : At(r, "inserting") /\ servers[req[r].server] # "GONE" =>
    Insertable(req[r].server, req[r].ip)

(* A revoked peer is off its node.                                         *)
RevokedOffNode ==
  \A k \in Keys, s \in Servers, a \in Ips :
    rows[k].status = "REVOKED" => routes[s][a] # k

(* Between requests, a restart of a node keeps every peer it serves.       *)
PeersSurviveRestart ==
  (\A r \in Requests : At(r, "idle")) =>
    \A k \in Keys : IsActive(k) =>
      LET s == rows[k].server
          a == rows[k].ip
      IN  routes[s][a] = k => conf[s][a] = k

(* Between requests the nodes serve exactly what the panel recorded, and   *)
(* would after a restart.                                                  *)
NodesMatchPanel ==
  (\A r \in Requests : At(r, "idle")) =>
    \A s \in Servers, a \in Ips :
      /\ conf[s][a] = routes[s][a]
      /\ servers[s] # "GONE" =>
           \A k \in Keys : routes[s][a] = k <=>
             IsActive(k) /\ rows[k].server = s /\ rows[k].ip = a

(* Only users with a subscription are served.                              *)
ServiceNeedsSubscription ==
  \A s \in Servers, a \in Ips :
    \A k \in {routes[s][a]} \ {NoKey} : IsActive(k) => rows[k].user \in subscribed

-----------------------------------------------------------------------------
(* What makes the first group of invariants inductive.                     *)

(* The fields a request needs are there when it needs them.                *)
HasNewKey(r) == req[r].pc \in {"adding", "inserting"}

RequestsTyped ==
  \A r \in Requests :
    /\ req[r].pc # "idle" => req[r].user \in Users /\ req[r].server \in Servers
    /\ req[r].pc \in CreatePcs => req[r].op \in {"create", "recreate"}
    /\ req[r].pc \in RemovePcs => req[r].peer \in Keys
    /\ req[r].op = "recreate" => req[r].peer \in Keys
    /\ HasNewKey(r) => req[r].key \in Keys /\ req[r].ip \in Ips

RowsTyped ==
  \A k \in Keys :
    rows[k].status # "NONE" => rows[k].user \in Users /\ rows[k].server \in Servers

CallsTyped ==
  \A c \in calls : c.op = "add" => c.ip \in Ips

(* A generated key is used by one request and stored once.                 *)
KeysFresh ==
  /\ \A k \in Keys : rows[k].status # "NONE" => k \in issued
  /\ \A r \in Requests : HasNewKey(r) =>
       /\ req[r].key \in issued
       /\ rows[req[r].key].status = "NONE"
       /\ \A q \in Requests : HasNewKey(q) /\ req[q].key = req[r].key => q = r

(* Whatever has come to route k at address a of s - the kernel, its file,  *)
(* a dump of it or a command on its way - k belongs there, for the row of k*)
(* and for the request that is about to store it.                          *)
Placed(k, s, a) ==
  /\ k \in issued
  /\ IsActive(k) => rows[k].server = s /\ rows[k].ip = a
  /\ \A r \in Requests : HasNewKey(r) /\ req[r].key = k =>
       req[r].server = s /\ req[r].ip = a

RoutesPlaced ==
  /\ \A s \in Servers, a \in Ips :
       \A k \in {routes[s][a], conf[s][a]} \ {NoKey} : Placed(k, s, a)
  /\ \A c \in calls :
       /\ c.op = "add" => Placed(c.key, c.server, c.ip)
       /\ \A a \in Ips : c.snapshot[a] # NoKey => Placed(c.snapshot[a], c.server, a)
===============================================================================
