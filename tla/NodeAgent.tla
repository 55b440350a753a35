------------------------------ MODULE NodeAgent -------------------------------
(***************************************************************************)
(* The agent on a VPN node (apps/agent/src/index.ts) and the panel's HTTP  *)
(* client for it (apps/api/src/agent-gateway/agent-gateway.service.ts).    *)
(*                                                                         *)
(* The state of WireGuard is its cryptokey routing table: the peer that    *)
(* owns each address of the pool.  The kernel keeps one owner per address, *)
(* so `wg set ... allowed-ips A` takes A away from the peer that had it.   *)
(* The agent runs its handlers concurrently; each awaits one command, then *)
(* another.  Every handler in progress is a record of `calls`.             *)
(***************************************************************************)
EXTENDS Naturals, FiniteSets

CONSTANTS
  Clients,   \* panel operations that may have a call outstanding
  Nobody,    \* the client of a call whose caller has given up
  Servers,   \* VPN nodes
  Keys,      \* WireGuard public keys
  Ips,       \* host addresses of the pool
  NoKey,     \* the owner of an address that is routed to no peer
  Null,      \* an absent value
  Faults     \* what may go wrong, a subset of AgentFaults

AgentFaults == {"lostCall",      \* the call dies: no connection, or the agent process ends
                "wgSetFails",    \* wg set exits with an error
                "saveFails",     \* wg-quick save fails (ignored: || true)
                "wgRestart",     \* systemctl restart wg-quick, or a reboot
                "reinstall"}     \* the bootstrap script runs again

ASSUME NodeAgentAssumption ==
  /\ Nobody \notin Clients
  /\ NoKey \notin Keys
  /\ Null \notin Ips

VARIABLES
  routes,    \* routes[s][a]: the key the kernel of s routes a to
  conf,      \* conf[s][a]: the same, in /etc/wireguard/wg0.conf
  calls      \* HTTP requests to agents, from sending to answer

agentVars == <<routes, conf, calls>>

Tables  == [Ips -> Keys \cup {NoKey}]
NoTable == [a \in Ips |-> NoKey]

(* "sent", then "set" once wg set has run, "saving" while wg-quick save has*)
(* read the table and not yet replaced the file, then "ok" or "error".     *)
CallRecords ==
  [client : Clients \cup {Nobody}, server : Servers, op : {"add", "remove"},
   key : Keys, ip : Ips \cup {Null},
   pc : {"sent", "set", "saving", "ok", "error"}, snapshot : Tables]

AgentTypeOK ==
  /\ routes \in [Servers -> Tables]
  /\ conf \in [Servers -> Tables]
  /\ calls \subseteq CallRecords

AgentInit ==
  /\ routes = [s \in Servers |-> NoTable]
  /\ conf = [s \in Servers |-> NoTable]
  /\ calls = {}

-----------------------------------------------------------------------------
(* The panel's side of a call.                                             *)
Call(client, s, op, key, ip) ==
  [client |-> client, server |-> s, op |-> op, key |-> key, ip |-> ip,
   pc |-> "sent", snapshot |-> NoTable]

CallsOf(client) == {c \in calls : c.client = client}

(* axios.post('/peers') and axios.delete('/peers/:key')                    *)
addPeer(client, s, key, ip)  == calls' = calls \cup {Call(client, s, "add", key, ip)}
removePeer(client, s, key)   == calls' = calls \cup {Call(client, s, "remove", key, Null)}

(* The client has its 2xx answer; `fail` has thrown on an error answer or  *)
(* on a call that was lost.                                                *)
Answered(client) == \E c \in CallsOf(client) : c.pc = "ok"
Failed(client)   == \A c \in CallsOf(client) : c.pc = "error"

(* The caller takes the answer, or the absence of one, off the network.    *)
Receive(client) == calls' = calls \ CallsOf(client)

(* The caller gives up (its timeout, or its process ends) and closes the   *)
(* connection: the agent finishes the handler all the same.                *)
Abandon(clients) ==
  calls' = {IF c.client \in clients THEN [c EXCEPT !.client = Nobody] ELSE c
              : c \in calls}

-----------------------------------------------------------------------------
(* The agent's side.  Become(c, d): call c goes on as d.                   *)
Become(c, d) == calls' = (calls \ {c}) \cup {d}

Assign(table, a, k) == [table EXCEPT ![a] = k]
Without(table, k)   == [a \in Ips |-> IF table[a] = k THEN NoKey ELSE table[a]]

(* wgAddPeer's and wgRemovePeer's first command.                           *)
WgSet(c) ==
  /\ c.pc = "sent"
  /\ routes' = [routes EXCEPT ![c.server] =
                  IF c.op = "add" THEN Assign(@, c.ip, c.key)
                                  ELSE Without(@, c.key)]
  /\ Become(c, [c EXCEPT !.pc = "set"])
  /\ UNCHANGED conf

WgSetFails(c) ==
  /\ "wgSetFails" \in Faults
  /\ c.pc = "sent"
  /\ Become(c, [c EXCEPT !.pc = "error"])
  /\ UNCHANGED <<routes, conf>>

(* Their second command, wg-quick save: it dumps the table to a temporary  *)
(* file, then renames it over wg0.conf.                                    *)
SaveDump(c) ==
  /\ c.pc = "set"
  /\ Become(c, [c EXCEPT !.pc = "saving", !.snapshot = routes[c.server]])
  /\ UNCHANGED <<routes, conf>>

SaveRename(c) ==
  /\ c.pc = "saving"
  /\ conf' = [conf EXCEPT ![c.server] = c.snapshot]
  /\ Become(c, [c EXCEPT !.pc = "ok", !.snapshot = NoTable])
  /\ UNCHANGED routes

SaveFails(c) ==
  /\ "saveFails" \in Faults
  /\ c.pc = "set"
  /\ Become(c, [c EXCEPT !.pc = "ok"])
  /\ UNCHANGED <<routes, conf>>

(* There is no connection, or the agent process dies with the call in it   *)
(* (systemd restarts it; the kernel keeps its table).  Where a connection  *)
(* breaks and the agent goes on, the caller has an error as on a timeout   *)
(* and the agent works for Nobody: that is the caller's Abandon.           *)
LoseCall(c) ==
  /\ "lostCall" \in Faults
  /\ calls' = calls \ {c}
  /\ UNCHANGED <<routes, conf>>

(* The answer to a call nobody waits for.                                  *)
AnswerNobody(c) ==
  /\ c.client = Nobody
  /\ c.pc \in {"ok", "error"}
  /\ calls' = calls \ {c}
  /\ UNCHANGED <<routes, conf>>

(* POST /restart, and the boot of the node: wg-quick loads wg0.conf.       *)
wgRestart(s) ==
  /\ {"wgRestart", "reinstall"} \cap Faults # {}
  /\ routes' = [routes EXCEPT ![s] = conf[s]]
  /\ UNCHANGED <<conf, calls>>

(* The bootstrap script on a node that already serves peers writes wg0.conf*)
(* anew, with no [Peer] section.  It goes on with a wgRestart, and a save  *)
(* of the running agent may come in between.                               *)
Reinstall(s) ==
  /\ "reinstall" \in Faults
  /\ conf' = [conf EXCEPT ![s] = NoTable]
  /\ UNCHANGED <<routes, calls>>

CallStep(c) ==
  \/ WgSet(c) \/ WgSetFails(c)
  \/ SaveDump(c) \/ SaveRename(c) \/ SaveFails(c)
  \/ LoseCall(c) \/ AnswerNobody(c)

AgentStep ==
  \/ \E c \in calls : CallStep(c)
  \/ \E s \in Servers : wgRestart(s) \/ Reinstall(s)
===============================================================================
