----------------------------- MODULE PeersProofs ------------------------------
(***************************************************************************)
(* Theorems about Peers, for every set of users, servers, keys, requests   *)
(* and addresses, every limit, and whatever faults and events happen.      *)
(***************************************************************************)
EXTENDS Peers, IpPoolProofs

TypeInv == TypeOK /\ RequestsTyped /\ RowsTyped /\ CallsTyped

USE DEF Requests

(* The address FindPeers allocates is a host address of the pool.          *)
LEMMA AllocatedIsHost ==
  ASSUME NEW used, nextFreeIp(Subnet, ServerAddress, used) # Exhausted
  PROVE  nextFreeIp(Subnet, ServerAddress, used) \in Ips
<1> DEFINE a == nextFreeIp(Subnet, ServerAddress, used)
<1>1. a \in FreeAddresses(Subnet, ServerAddress, used)
  BY NextFreeIpCorrect, PeersAssumption
<1> QED  BY <1>1, PeersAssumption DEF FreeAddresses

LEMMA InitTypeInv == Init => TypeInv
  BY NodeAgentAssumption, PeersAssumption
     DEF Init, AgentInit, NoTable, Tables, NoRow, Rows, Idle, RequestRecords,
         TypeInv, TypeOK, AgentTypeOK, RequestsTyped, RowsTyped, CallsTyped,
         HasNewKey, CreatePcs, RemovePcs

-----------------------------------------------------------------------------
(* Type correctness, one lemma for each kind of step.                      *)

(* A step of an agent touches neither rows nor requests.                   *)
LEMMA TypeAgentStep == TypeInv /\ AgentNext => TypeInv'
<1> SUFFICES ASSUME TypeInv, AgentNext PROVE TypeInv'
  OBVIOUS
<1> USE DEF AgentNext, panelVars, envVars
<1>1. RequestsTyped' /\ RowsTyped'
  BY DEF TypeInv, RequestsTyped, RowsTyped, HasNewKey
<1>2. AgentTypeOK' /\ CallsTyped'
  <2>0. /\ routes \in [Servers -> Tables]
        /\ conf \in [Servers -> Tables]
        /\ \A c \in calls : c \in CallRecords /\ (c.op = "add" => c.ip \in Ips)
    BY DEF TypeInv, TypeOK, AgentTypeOK, CallsTyped
  <2>1. ASSUME NEW c \in calls, CallStep(c)
        PROVE  AgentTypeOK' /\ CallsTyped'
    <3>0. /\ c.server \in Servers /\ c.key \in Keys /\ c.snapshot \in Tables
          /\ c.op = "add" => c.ip \in Ips
      BY <2>0 DEF CallRecords
    <3>1. ASSUME NEW pc \in {"sent", "set", "saving", "ok", "error"},
                 NEW table \in Tables,
                 Become(c, [c EXCEPT !.pc = pc, !.snapshot = table])
          PROVE  calls' \subseteq CallRecords /\ CallsTyped'
      <4>1. /\ [c EXCEPT !.pc = pc, !.snapshot = table] \in CallRecords
            /\ [c EXCEPT !.pc = pc, !.snapshot = table].op = c.op
            /\ [c EXCEPT !.pc = pc, !.snapshot = table].ip = c.ip
        BY <2>0 DEF CallRecords
      <4> QED  BY <2>0, <3>0, <3>1, <4>1 DEF Become, CallsTyped
    <3>2. ASSUME NEW pc \in {"sent", "set", "saving", "ok", "error"},
                 Become(c, [c EXCEPT !.pc = pc])
          PROVE  calls' \subseteq CallRecords /\ CallsTyped'
      <4>1. [c EXCEPT !.pc = pc] = [c EXCEPT !.pc = pc, !.snapshot = c.snapshot]
        BY <2>0 DEF CallRecords
      <4> QED  BY <3>0, <3>1, <3>2, <4>1
    <3>3. ASSUME calls' = calls \ {c}
          PROVE  calls' \subseteq CallRecords /\ CallsTyped'
      BY <2>0, <3>3 DEF CallsTyped
    <3>4. NoTable \in Tables
      BY DEF NoTable, Tables
    <3>5. CASE WgSet(c)
      <4>1. Without(routes[c.server], c.key) \in Tables
        BY <2>0, <3>0 DEF Without, Tables
      <4>2. c.op = "add" => Assign(routes[c.server], c.ip, c.key) \in Tables
        BY <2>0, <3>0 DEF Assign, Tables
      <4>3. routes' \in [Servers -> Tables]
        BY <2>0, <3>0, <3>5, <4>1, <4>2 DEF WgSet
      <4> QED  BY <2>0, <3>2, <3>5, <4>3 DEF WgSet, AgentTypeOK
    <3>6. CASE WgSetFails(c)
      BY <2>0, <3>2, <3>6 DEF WgSetFails, AgentTypeOK
    <3>7. CASE SaveDump(c)
      BY <2>0, <3>0, <3>1, <3>7 DEF SaveDump, AgentTypeOK
    <3>8. CASE SaveRename(c)
      BY <2>0, <3>0, <3>1, <3>4, <3>8 DEF SaveRename, AgentTypeOK
    <3>9. CASE SaveFails(c)
      BY <2>0, <3>2, <3>9 DEF SaveFails, AgentTypeOK
    <3>10. CASE LoseCall(c) \/ AnswerNobody(c)
      BY <2>0, <3>3, <3>10 DEF LoseCall, AnswerNobody, AgentTypeOK
    <3> QED
      BY <2>1, <3>5, <3>6, <3>7, <3>8, <3>9, <3>10 DEF CallStep
  <2>2. ASSUME NEW s \in Servers, wgRestart(s) \/ Reinstall(s)
        PROVE  AgentTypeOK' /\ CallsTyped'
    <3>1. NoTable \in Tables
      BY DEF NoTable, Tables
    <3> QED
      BY <2>0, <2>2, <3>1 DEF wgRestart, Reinstall, AgentTypeOK, CallsTyped
  <2> QED  BY <2>1, <2>2 DEF AgentStep
<1> QED  BY <1>1, <1>2 DEF TypeInv, TypeOK

(* RequestsTyped for one request record.                                   *)
RequestTyped(q) ==
  /\ q.pc # "idle" => q.user \in Users /\ q.server \in Servers
  /\ q.pc \in CreatePcs => q.op \in {"create", "recreate"}
  /\ q.pc \in RemovePcs => q.peer \in Keys
  /\ q.op = "recreate" => q.peer \in Keys
  /\ q.pc \in {"adding", "inserting"} => q.key \in Keys /\ q.ip \in Ips

LEMMA IdleTyped == Idle \in RequestRecords /\ RequestTyped(Idle)
  BY DEF Idle, RequestRecords, RequestTyped, CreatePcs, RemovePcs

LEMMA RequestTypes ==
  ASSUME TypeInv, NEW r \in Clients
  PROVE  /\ req \in [Clients -> RequestRecords]
         /\ req[r] \in RequestRecords
         /\ RequestTyped(req[r])
  BY DEF TypeInv, TypeOK, RequestsTyped, RequestTyped, HasNewKey

(* A step that changes one request, to a well-typed record.                *)
LEMMA RequestUpdate ==
  ASSUME TypeInv, NEW r \in Clients,
         NEW q \in RequestRecords, RequestTyped(q),
         req' = [req EXCEPT ![r] = q]
  PROVE  req' \in [Clients -> RequestRecords] /\ RequestsTyped'
<1>1. req' \in [Clients -> RequestRecords]
  BY RequestTypes
<1>2. \A p \in Clients : RequestTyped(req'[p])
  BY RequestTypes
<1> QED  BY <1>1, <1>2 DEF RequestsTyped, RequestTyped, HasNewKey

(* ... that only moves its program counter, or finishes.                   *)
LEMMA GotoUpdate ==
  ASSUME TypeInv, NEW r \in Clients, NEW pc, Goto(r, pc),
         \/ /\ req[r].pc \in CreatePcs
            /\ pc \in {"getActive", "countPeers", "findServer", "findPeers"}
         \/ req[r].pc \in RemovePcs /\ pc \in RemovePcs
         \/ req[r].pc = "adding" /\ pc = "inserting"
         \/ req[r].pc = "inserting" /\ req[r].op = "recreate" /\ pc \in RemovePcs
  PROVE  req' \in [Clients -> RequestRecords] /\ RequestsTyped'
<1> DEFINE q == [req[r] EXCEPT !.pc = pc]
<1>1. req' = [req EXCEPT ![r] = q]
  BY DEF Goto
<1>2. req[r] \in RequestRecords /\ RequestTyped(req[r])
  BY RequestTypes
<1>3. q \in RequestRecords
  BY <1>2 DEF RequestRecords, CreatePcs, RemovePcs
<1>4. RequestTyped(q)
  BY <1>2 DEF RequestTyped, RequestRecords, CreatePcs, RemovePcs
<1> HIDE DEF q
<1> QED  BY <1>1, <1>3, <1>4, RequestUpdate

LEMMA FinishUpdate ==
  ASSUME TypeInv, NEW r \in Clients, Finish(r)
  PROVE  req' \in [Clients -> RequestRecords] /\ RequestsTyped'
  BY IdleTyped, RequestUpdate DEF Finish

(* The calls a request makes, drops or leaves behind are well typed.       *)
LEMMA CallUpdates ==
  ASSUME TypeInv
  PROVE  /\ \A r \in Clients : Receive(r) => calls' \subseteq CallRecords /\ CallsTyped'
         /\ \A clients \in SUBSET Clients :
              Abandon(clients) => calls' \subseteq CallRecords /\ CallsTyped'
         /\ \A r \in Clients, s \in Servers, k \in Keys :
              /\ removePeer(r, s, k) => calls' \subseteq CallRecords /\ CallsTyped'
              /\ \A a \in Ips :
                   addPeer(r, s, k, a) => calls' \subseteq CallRecords /\ CallsTyped'
<1>0. \A c \in calls : c \in CallRecords /\ (c.op = "add" => c.ip \in Ips)
  BY DEF TypeInv, TypeOK, AgentTypeOK, CallsTyped
<1>1. NoTable \in Tables
  BY DEF NoTable, Tables
<1>2. ASSUME NEW r \in Clients, Receive(r)
      PROVE  calls' \subseteq CallRecords /\ CallsTyped'
  BY <1>0, <1>2 DEF Receive, CallsOf, CallsTyped
<1>3. ASSUME NEW clients \in SUBSET Clients, Abandon(clients)
      PROVE  calls' \subseteq CallRecords /\ CallsTyped'
  <2>1. \A c \in CallRecords :
           /\ [c EXCEPT !.client = Nobody] \in CallRecords
           /\ [c EXCEPT !.client = Nobody].op = c.op
           /\ [c EXCEPT !.client = Nobody].ip = c.ip
    BY DEF CallRecords
  <2>2. ASSUME NEW d \in calls'  PROVE d \in CallRecords /\ (d.op = "add" => d.ip \in Ips)
    <3>1. PICK c \in calls :
            d = IF c.client \in clients THEN [c EXCEPT !.client = Nobody] ELSE c
      BY <1>3 DEF Abandon
    <3> QED  BY <1>0, <2>1, <3>1
  <2> QED  BY <2>2 DEF CallsTyped
<1>4. ASSUME NEW r \in Clients, NEW s \in Servers, NEW k \in Keys, removePeer(r, s, k)
      PROVE  calls' \subseteq CallRecords /\ CallsTyped'
  BY <1>0, <1>1, <1>4 DEF removePeer, Call, CallRecords, CallsTyped
<1>5. ASSUME NEW r \in Clients, NEW s \in Servers, NEW k \in Keys, NEW a \in Ips,
             addPeer(r, s, k, a)
      PROVE  calls' \subseteq CallRecords /\ CallsTyped'
  BY <1>0, <1>1, <1>5 DEF addPeer, Call, CallRecords, CallsTyped
<1> QED  BY <1>2, <1>3, <1>4, <1>5

(* Rows that are stored end, and give their address back; no row begins.   *)
RowsOnlyClose ==
  /\ rows' \in [Keys -> Rows]
  /\ \A k \in Keys :
       \/ rows'[k] = rows[k]
       \/ /\ Exists(k)
          /\ rows'[k].status \in {"REVOKED", "DELETED"}
          /\ rows'[k].ip = Null
          /\ rows'[k].user = rows[k].user
          /\ rows'[k].server = rows[k].server

LEMMA CloseSteps ==
  ASSUME rows \in [Keys -> Rows],
         \/ \E r \in Clients : MarkRevoked(r) \/ DeleteRow(r)
         \/ \E s \in Servers : ServerDeleted(s)
  PROVE  RowsOnlyClose
<1>1. \A row \in Rows, st \in {"REVOKED", "DELETED"} :
         /\ [row EXCEPT !.status = st, !.ip = Null] \in Rows
         /\ [row EXCEPT !.status = st, !.ip = Null].status = st
         /\ [row EXCEPT !.status = st, !.ip = Null].ip = Null
         /\ [row EXCEPT !.status = st, !.ip = Null].user = row.user
         /\ [row EXCEPT !.status = st, !.ip = Null].server = row.server
  BY DEF Rows
<1>2. ASSUME NEW r \in Clients, MarkRevoked(r)  PROVE RowsOnlyClose
  <2> DEFINE p == req[r].peer
  <2>1. CASE p \in Keys /\ Exists(p)
    <3>1. rows' = [rows EXCEPT ![p] = [rows[p] EXCEPT !.status = "REVOKED", !.ip = Null]]
      BY <1>2, <2>1 DEF MarkRevoked, Revoked, Rows
    <3> HIDE DEF p
    <3> QED  BY <1>1, <2>1, <3>1, ZenonT(30) DEF RowsOnlyClose
  <2>2. CASE ~(p \in Keys /\ Exists(p))
    <3>1. rows' = rows
      BY <1>2, <2>2 DEF MarkRevoked, Revoked, Rows
    <3> QED  BY <3>1 DEF RowsOnlyClose
  <2> QED  BY <2>1, <2>2
<1>3. ASSUME NEW r \in Clients, DeleteRow(r)  PROVE RowsOnlyClose
  <2> DEFINE p == req[r].peer
  <2>1. CASE p \in Keys /\ Exists(p)
    <3>1. rows' = [rows EXCEPT ![p] = Deleted(rows[p])]
      BY <1>3, <2>1 DEF DeleteRow
    <3> HIDE DEF p
    <3> QED  BY <1>1, <2>1, <3>1 DEF RowsOnlyClose, Deleted
  <2>2. CASE ~(p \in Keys /\ Exists(p))
    <3>1. rows' = rows
      BY <1>3, <2>2 DEF DeleteRow
    <3> QED  BY <3>1 DEF RowsOnlyClose
  <2> QED  BY <2>1, <2>2
<1>4. ASSUME NEW s \in Servers, ServerDeleted(s)  PROVE RowsOnlyClose
  <2>1. rows' = [k \in Keys |-> IF Exists(k) /\ rows[k].server = s
                                 THEN Deleted(rows[k]) ELSE rows[k]]
    BY <1>4 DEF ServerDeleted
  <2> QED  BY <1>1, <2>1 DEF RowsOnlyClose, Deleted
<1> QED  BY <1>2, <1>3, <1>4

LEMMA TypeRequestStep ==
  ASSUME TypeInv, NEW r \in Clients, Begin(r) \/ RequestStep(r)
  PROVE  TypeInv'
<1> USE DEF At
<1>0. /\ req \in [Clients -> RequestRecords] /\ req[r] \in RequestRecords
      /\ RequestTyped(req[r])
  BY RequestTypes
<1>1. /\ routes \in [Servers -> Tables] /\ conf \in [Servers -> Tables]
      /\ calls \subseteq CallRecords /\ CallsTyped
      /\ rows \in [Keys -> Rows] /\ issued \subseteq Keys /\ RowsTyped
      /\ subscribed \subseteq Users
      /\ servers \in [Servers -> {"ACTIVE", "UNREACHABLE", "GONE"}]
  BY DEF TypeInv, TypeOK, AgentTypeOK
(* Reads, and the steps that only move the request.                        *)
<1>2. ASSUME req' \in [Clients -> RequestRecords] /\ RequestsTyped',
             UNCHANGED <<routes, conf, rows, issued, envVars>>,
             calls' \subseteq CallRecords /\ CallsTyped'
      PROVE  TypeInv'
  <2>1. RowsTyped'
    BY <1>1, <1>2 DEF RowsTyped
  <2> QED  BY <1>1, <1>2, <2>1 DEF TypeInv, TypeOK, AgentTypeOK, envVars
<1>3. ASSUME req' \in [Clients -> RequestRecords] /\ RequestsTyped',
             UNCHANGED <<agentVars, rows, issued, envVars>>
      PROVE  TypeInv'
  <2>1. calls' \subseteq CallRecords /\ CallsTyped'
    BY <1>1, <1>3 DEF CallsTyped, agentVars
  <2> QED  BY <1>2, <1>3, <2>1 DEF agentVars
<1>4. ASSUME NEW k \in Keys, rows[k].status # "NONE"
      PROVE  rows[k].user \in Users /\ rows[k].server \in Servers
  BY <1>1, <1>4 DEF RowsTyped
<1>5. CASE Begin(r)
  <2>1. ASSUME NEW q \in RequestRecords, RequestTyped(q), req' = [req EXCEPT ![r] = q],
               UNCHANGED <<agentVars, rows, issued, envVars>>
        PROVE  TypeInv'
    BY <1>3, <2>1, RequestUpdate
  <2>2. ASSUME NEW u \in Users, NEW s \in Servers, BeginCreate(r, u, s)
        PROVE  TypeInv'
    <3> DEFINE q == [Idle EXCEPT !.op = "create", !.pc = "countPeers",
                                 !.user = u, !.server = s]
    <3>1. q \in RequestRecords /\ RequestTyped(q)
      BY DEF Idle, RequestRecords, RequestTyped, CreatePcs, RemovePcs
    <3> QED  BY <2>1, <2>2, <3>1 DEF BeginCreate
  <2>3. ASSUME NEW u \in Users, NEW k \in Keys, BeginRecreate(r, u, k)
        PROVE  TypeInv'
    <3> DEFINE q == [Idle EXCEPT !.op = "recreate", !.pc = "getActive", !.user = u,
                                 !.server = rows[k].server, !.peer = k]
    <3>1. rows[k].server \in Servers
      BY <1>4, <2>3 DEF BeginRecreate, Owned, IsActive
    <3>2. q \in RequestRecords /\ RequestTyped(q)
      BY <3>1 DEF Idle, RequestRecords, RequestTyped, CreatePcs, RemovePcs
    <3> QED  BY <2>1, <2>3, <3>2 DEF BeginRecreate
  <2>4. ASSUME NEW u \in Users, NEW k \in Keys, BeginRevoke(r, u, k)
        PROVE  TypeInv'
    <3> DEFINE q == [Idle EXCEPT !.op = "revoke", !.pc = "findNode", !.user = u,
                                 !.server = rows[k].server, !.peer = k]
    <3>1. rows[k].server \in Servers
      BY <1>4, <2>4 DEF BeginRevoke, Owned, IsActive
    <3>2. q \in RequestRecords /\ RequestTyped(q)
      BY <3>1 DEF Idle, RequestRecords, RequestTyped, CreatePcs, RemovePcs
    <3> QED  BY <2>1, <2>4, <3>2 DEF BeginRevoke
  <2>5. ASSUME NEW k \in Keys, BeginAdminDelete(r, k)
        PROVE  TypeInv'
    <3> DEFINE q == [Idle EXCEPT !.op = "adminDelete",
                                 !.pc = IF IsActive(k) THEN "findNode" ELSE "closing",
                                 !.user = rows[k].user,
                                 !.server = rows[k].server, !.peer = k]
    <3>1. rows[k].server \in Servers /\ rows[k].user \in Users
      BY <1>4, <2>5 DEF BeginAdminDelete, Exists
    <3>2. q \in RequestRecords /\ RequestTyped(q)
      BY <3>1 DEF Idle, RequestRecords, RequestTyped, CreatePcs, RemovePcs
    <3> QED  BY <2>1, <2>5, <3>2 DEF BeginAdminDelete
  <2> QED  BY <1>5, <2>2, <2>3, <2>4, <2>5 DEF Begin
<1>6. CASE GetActive(r) \/ CountPeers(r) \/ FindServer(r) \/ LoadOwned(r)
  <2>1. req' \in [Clients -> RequestRecords] /\ RequestsTyped'
    BY <1>6, GotoUpdate, FinishUpdate
       DEF GetActive, CountPeers, FindServer, LoadOwned, Check, CreatePcs, RemovePcs
  <2> QED
    BY <1>3, <1>6, <2>1 DEF GetActive, CountPeers, FindServer, LoadOwned, Check
<1>7. CASE FindPeers(r)
  <2> DEFINE s == req[r].server
             a == nextFreeIp(Subnet, ServerAddress, UsedIps(s))
  <2>1. s \in Servers /\ a \in Ips
    BY <1>0, <1>7, AllocatedIsHost DEF FindPeers, CanAllocate, RequestTyped
  <2> HIDE DEF s, a
  <2>2. PICK k \in Keys :
          /\ issued' = issued \cup {k}
          /\ addPeer(r, s, k, a)
          /\ req' = [req EXCEPT ![r].pc = "adding", ![r].key = k, ![r].ip = a]
    BY <1>7 DEF FindPeers, s, a
  <2> DEFINE q == [req[r] EXCEPT !.pc = "adding", !.key = k, !.ip = a]
  <2>3. req' = [req EXCEPT ![r] = q]
    BY <1>0, <2>2
  <2>4. q \in RequestRecords /\ RequestTyped(q)
    BY <1>0, <1>7, <2>1
       DEF RequestRecords, RequestTyped, CreatePcs, RemovePcs, FindPeers
  <2>5. req' \in [Clients -> RequestRecords] /\ RequestsTyped'
    <3> HIDE DEF q
    <3> QED  BY <2>3, <2>4, RequestUpdate
  <2>6. calls' \subseteq CallRecords /\ CallsTyped'
    BY <2>1, <2>2, CallUpdates
  <2>7. UNCHANGED <<routes, conf, rows, envVars>> /\ issued' \subseteq Keys
    BY <1>1, <1>7, <2>2 DEF FindPeers
  <2> QED
    BY <1>1, <2>5, <2>6, <2>7 DEF TypeInv, TypeOK, AgentTypeOK, RowsTyped, envVars
<1>8. CASE FindPeersThrows(r)
  BY <1>3, <1>8, FinishUpdate DEF FindPeersThrows
<1>9. CASE AddPeerOk(r) \/ AddPeerFails(r) \/ RemovePeerReturns(r)
  <2>1. req' \in [Clients -> RequestRecords] /\ RequestsTyped'
    BY <1>9, GotoUpdate, FinishUpdate
       DEF AddPeerOk, AddPeerFails, RemovePeerReturns, RemovePcs
  <2>2. calls' \subseteq CallRecords /\ CallsTyped'
    BY <1>9, CallUpdates DEF AddPeerOk, AddPeerFails, RemovePeerReturns
  <2> QED
    BY <1>2, <1>9, <2>1, <2>2 DEF AddPeerOk, AddPeerFails, RemovePeerReturns
<1>10. CASE Insert(r)
  <2>1. req' \in [Clients -> RequestRecords] /\ RequestsTyped'
    BY <1>10, GotoUpdate, FinishUpdate DEF Insert, RemovePcs
  <2>2. rows' \in [Keys -> Rows] /\ RowsTyped'
    <3> DEFINE new == [status |-> "ACTIVE", user |-> req[r].user,
                       server |-> req[r].server, ip |-> req[r].ip]
    <3>1. new \in Rows /\ new.user \in Users /\ new.server \in Servers
      BY <1>0, <1>10 DEF Insert, NewRow, RequestTyped, Rows
    <3>2. rows' = [rows EXCEPT ![req[r].key] = new] \/ rows' = rows
      BY <1>10 DEF Insert, NewRow
    <3> HIDE DEF new
    <3> QED  BY <1>1, <3>1, <3>2 DEF RowsTyped
  <2>3. UNCHANGED <<agentVars, issued, envVars>>
    BY <1>10 DEF Insert, NewRow
  <2> QED
    BY <1>1, <2>1, <2>2, <2>3
       DEF TypeInv, TypeOK, AgentTypeOK, CallsTyped, agentVars, envVars
<1>11. CASE FindNode(r)
  <2>1. req' \in [Clients -> RequestRecords] /\ RequestsTyped'
    BY <1>11, GotoUpdate DEF FindNode, RemovePcs
  <2>2. req[r].server \in Servers /\ req[r].peer \in Keys
    BY <1>0, <1>11 DEF FindNode, RequestTyped, RemovePcs
  <2>3. calls' \subseteq CallRecords /\ CallsTyped'
    BY <1>1, <1>11, <2>2, CallUpdates DEF FindNode, CallsTyped
  <2> QED  BY <1>2, <1>11, <2>1, <2>3 DEF FindNode
<1>12. CASE MarkRevoked(r) \/ DeleteRow(r)
  <2>1. req' \in [Clients -> RequestRecords] /\ RequestsTyped'
    BY <1>12, FinishUpdate DEF MarkRevoked, DeleteRow
  <2>2. rows' \in [Keys -> Rows] /\ RowsTyped'
    BY <1>1, <1>12, CloseSteps DEF RowsOnlyClose, RowsTyped, Exists
  <2>3. UNCHANGED <<agentVars, issued, envVars>>
    BY <1>12 DEF MarkRevoked, DeleteRow
  <2> QED
    BY <1>1, <2>1, <2>2, <2>3
       DEF TypeInv, TypeOK, AgentTypeOK, CallsTyped, agentVars, envVars
<1>13. CASE Timeout(r)
  <2>1. req' \in [Clients -> RequestRecords] /\ RequestsTyped'
    BY <1>13, GotoUpdate, FinishUpdate DEF Timeout, RemovePcs
  <2>2. calls' \subseteq CallRecords /\ CallsTyped'
    BY <1>13, CallUpdates DEF Timeout
  <2> QED  BY <1>2, <1>13, <2>1, <2>2 DEF Timeout
<1> QED
  BY <1>5, <1>6, <1>7, <1>8, <1>9, <1>10, <1>11, <1>12, <1>13 DEF RequestStep

LEMMA TypeEnvStep == TypeInv /\ EnvStep => TypeInv'
<1> SUFFICES ASSUME TypeInv, EnvStep PROVE TypeInv'
  OBVIOUS
<1>1. CASE PanelCrash
  <2>1. req' \in [Clients -> RequestRecords] /\ RequestsTyped'
    BY <1>1, IdleTyped DEF PanelCrash, RequestsTyped, RequestTyped, HasNewKey
  <2>2. calls' \subseteq CallRecords /\ CallsTyped'
    BY <1>1, CallUpdates DEF PanelCrash
  <2> QED
    BY <1>1, <2>1, <2>2 DEF PanelCrash, TypeInv, TypeOK, AgentTypeOK, RowsTyped, envVars
<1>2. ASSUME SubscriptionsChange  PROVE TypeInv'
  BY <1>2 DEF SubscriptionsChange, TypeInv, TypeOK, AgentTypeOK, RequestsTyped, RowsTyped,
              CallsTyped, HasNewKey, agentVars, panelVars
<1>3. ASSUME NEW s \in Servers, HealthChanges(s)  PROVE TypeInv'
  BY <1>3 DEF HealthChanges, TypeInv, TypeOK, AgentTypeOK, RequestsTyped, RowsTyped,
              CallsTyped, HasNewKey, agentVars, panelVars
<1>4. ASSUME NEW s \in Servers, ServerDeleted(s)  PROVE TypeInv'
  <2>1. rows' \in [Keys -> Rows] /\ RowsTyped'
    BY <1>4, CloseSteps DEF RowsOnlyClose, TypeInv, TypeOK, RowsTyped, Exists
  <2> QED
    BY <1>4, <2>1 DEF ServerDeleted, TypeInv, TypeOK, AgentTypeOK, RequestsTyped,
                      CallsTyped, HasNewKey, agentVars
<1> QED  BY <1>1, <1>2, <1>3, <1>4 DEF EnvStep

LEMMA TypeStep == TypeInv /\ [Next]_vars => TypeInv'
<1> SUFFICES ASSUME TypeInv, [Next]_vars PROVE TypeInv'
  OBVIOUS
<1>1. CASE UNCHANGED vars
  BY <1>1 DEF TypeInv, TypeOK, AgentTypeOK, RequestsTyped, RowsTyped, CallsTyped, HasNewKey,
              vars, agentVars, panelVars, envVars
<1> QED  BY <1>1, TypeAgentStep, TypeRequestStep, TypeEnvStep DEF Next

(* Every variable keeps its type: rows, requests in progress, commands in  *)
(* flight and the nodes' tables, through every fault and interleaving.     *)
THEOREM PeersTypeCorrect == Spec => []TypeOK
<1>1. TypeInv => TypeOK
  BY DEF TypeInv
<1> QED  BY InitTypeInv, TypeStep, <1>1, PTL DEF Spec

-----------------------------------------------------------------------------
(* Every step is of one of three kinds: it allocates a key and an address, *)
(* it stores a row, or it does neither.                                    *)

(* Key k is routed to a at s, or will be once a command or a save runs.    *)
Claim(k, s, a) ==
  \/ routes[s][a] = k
  \/ conf[s][a] = k
  \/ \E c \in calls : /\ c.server = s
                      /\ \/ c.op = "add" /\ c.key = k /\ c.ip = a
                         \/ c.snapshot[a] = k

NoNewClaim ==
  \A k \in Keys, s \in Servers, a \in Ips : Claim(k, s, a)' => Claim(k, s, a)

(* No request comes to hold a new key, none enters recreate's second half. *)
RequestsFrame ==
  \A r \in Clients :
    /\ HasNewKey(r)' => /\ HasNewKey(r)
                        /\ req'[r].key = req[r].key
                        /\ req'[r].server = req[r].server
                        /\ req'[r].ip = req[r].ip
    /\ req'[r].op = "recreate" /\ req'[r].pc \in RemovePcs =>
         /\ req[r].op = "recreate" /\ req[r].pc \in RemovePcs
         /\ req'[r].key = req[r].key

NeitherKind ==
  /\ RequestsFrame
  /\ RowsOnlyClose
  /\ NoNewClaim
  /\ UNCHANGED issued

StoreKind(r) ==
  /\ At(r, "inserting")
  /\ Insertable(req[r].server, req[r].ip)
  /\ Insert(r)

(* What the agent does: it only moves claims along.                        *)
LEMMA AgentClaims == TypeInv /\ AgentStep => NoNewClaim
<1> SUFFICES ASSUME TypeInv, AgentStep,
                    NEW k \in Keys, NEW s \in Servers, NEW a \in Ips,
                    Claim(k, s, a)'
             PROVE  Claim(k, s, a)
  BY DEF NoNewClaim
<1>0. /\ routes \in [Servers -> Tables] /\ conf \in [Servers -> Tables]
      /\ \A c \in calls : c \in CallRecords
      /\ k # NoKey
  BY NodeAgentAssumption DEF TypeInv, TypeOK, AgentTypeOK
<1>1. NoTable[a] # k
  BY <1>0 DEF NoTable
<1>2. ASSUME NEW c \in calls, CallStep(c)  PROVE Claim(k, s, a)
  <2>0. c \in CallRecords
    BY <1>0
  <2>1. ASSUME NEW pc, Become(c, [c EXCEPT !.pc = pc]),
               UNCHANGED conf, routes'[s][a] = k => Claim(k, s, a)
        PROVE  Claim(k, s, a)
    BY <2>0, <2>1 DEF Become, Claim, CallRecords
  <2>2. CASE WgSet(c)
    <3>1. routes'[s][a] = k => Claim(k, s, a)
      <4> SUFFICES ASSUME routes'[s][a] = k, routes[s][a] # k  PROVE Claim(k, s, a)
        BY DEF Claim
      <4>1. s = c.server
        BY <1>0, <2>0, <2>2 DEF WgSet, CallRecords
      <4>2. CASE c.op = "add"
        <5>1. routes'[s] = Assign(routes[s], c.ip, c.key)
          BY <1>0, <2>0, <2>2, <4>1, <4>2 DEF WgSet, CallRecords
        <5>2. a = c.ip /\ k = c.key
          BY <1>0, <5>1 DEF Assign, Tables
        <5> QED  BY <4>1, <4>2, <5>2 DEF Claim
      <4>3. CASE c.op # "add"
        <5>1. routes'[s] = Without(routes[s], c.key)
          BY <1>0, <2>0, <2>2, <4>1, <4>3 DEF WgSet, CallRecords
        <5> QED  BY <1>0, <5>1 DEF Without
      <4> QED  BY <4>2, <4>3
    <3> QED  BY <2>1, <2>2, <3>1 DEF WgSet
  <2>3. CASE WgSetFails(c) \/ SaveFails(c)
    BY <2>1, <2>3 DEF WgSetFails, SaveFails, Claim
  <2>4. CASE SaveDump(c)
    <3>1. ASSUME NEW d \in calls', d.server = s,
                 \/ d.op = "add" /\ d.key = k /\ d.ip = a
                 \/ d.snapshot[a] = k
          PROVE  Claim(k, s, a)
      <4>1. d \in calls \/ d = [c EXCEPT !.pc = "saving", !.snapshot = routes[c.server]]
        BY <2>4 DEF SaveDump, Become
      <4>2. CASE d \in calls
        BY <3>1, <4>2 DEF Claim
      <4>3. CASE d = [c EXCEPT !.pc = "saving", !.snapshot = routes[c.server]]
        <5>1. /\ c.server = d.server /\ d.op = c.op /\ d.key = c.key /\ d.ip = c.ip
              /\ d.snapshot = routes[c.server]
          BY <2>0, <4>3 DEF CallRecords
        <5> QED  BY <3>1, <5>1 DEF Claim
      <4> QED  BY <4>1, <4>2, <4>3
    <3> QED  BY <2>4, <3>1 DEF SaveDump, Claim
  <2>5. CASE SaveRename(c)
    <3>1. conf'[s][a] = k => Claim(k, s, a)
      BY <1>0, <2>0, <2>5 DEF SaveRename, Claim, CallRecords
    <3>2. ASSUME NEW d \in calls', d.server = s,
                 \/ d.op = "add" /\ d.key = k /\ d.ip = a
                 \/ d.snapshot[a] = k
          PROVE  Claim(k, s, a)
      <4>1. d \in calls \/ d = [c EXCEPT !.pc = "ok", !.snapshot = NoTable]
        BY <2>5 DEF SaveRename, Become
      <4> QED  BY <1>1, <2>0, <3>2, <4>1 DEF Claim, CallRecords
    <3> QED  BY <2>5, <3>1, <3>2 DEF SaveRename, Claim
  <2>6. CASE LoseCall(c) \/ AnswerNobody(c)
    BY <2>6 DEF LoseCall, AnswerNobody, Claim
  <2> QED  BY <1>2, <2>2, <2>3, <2>4, <2>5, <2>6 DEF CallStep
<1>3. ASSUME NEW t \in Servers, wgRestart(t) \/ Reinstall(t)  PROVE Claim(k, s, a)
  <2>1. CASE wgRestart(t)
    BY <1>0, <2>1 DEF wgRestart, Claim
  <2>2. CASE Reinstall(t)
    BY <1>0, <1>1, <2>2 DEF Reinstall, Claim
  <2> QED  BY <1>3, <2>1, <2>2
<1> QED  BY <1>2, <1>3 DEF AgentStep

(* What the panel does to the calls, apart from sending an add.            *)
LEMMA PanelClaims ==
  ASSUME TypeInv, UNCHANGED <<routes, conf>>,
         \/ UNCHANGED calls
         \/ \E r \in Clients : Receive(r)
         \/ \E clients \in SUBSET Clients : Abandon(clients)
         \/ \E r \in Clients, s \in Servers, k \in Keys : removePeer(r, s, k)
  PROVE  NoNewClaim
<1> SUFFICES ASSUME NEW k \in Keys, NEW s \in Servers, NEW a \in Ips,
                    Claim(k, s, a)'
             PROVE  Claim(k, s, a)
  BY DEF NoNewClaim
<1>0. k # NoKey /\ \A c \in calls : c \in CallRecords
  BY NodeAgentAssumption DEF TypeInv, TypeOK, AgentTypeOK
<1>1. ASSUME NEW d \in calls', d.server = s,
             \/ d.op = "add" /\ d.key = k /\ d.ip = a
             \/ d.snapshot[a] = k
      PROVE  \E c \in calls : /\ c.server = s
                              /\ \/ c.op = "add" /\ c.key = k /\ c.ip = a
                                 \/ c.snapshot[a] = k
  <2>1. CASE UNCHANGED calls \/ \E r \in Clients : Receive(r)
    BY <1>1, <2>1 DEF Receive
  <2>2. ASSUME NEW clients \in SUBSET Clients, Abandon(clients)
        PROVE  \E c \in calls : /\ d.server = c.server /\ d.op = c.op /\ d.key = c.key
                                /\ d.ip = c.ip /\ d.snapshot = c.snapshot
    <3>1. PICK c \in calls :
            d = IF c.client \in clients THEN [c EXCEPT !.client = Nobody] ELSE c
      BY <1>1, <2>2 DEF Abandon
    <3>2. c \in CallRecords
      BY <1>0
    <3> QED  BY <3>1, <3>2 DEF CallRecords
  <2>3. ASSUME NEW r \in Clients, NEW t \in Servers, NEW j \in Keys, removePeer(r, t, j)
        PROVE  d \in calls
    BY <1>0, <1>1, <2>3 DEF removePeer, Call, NoTable
  <2> QED  BY <1>1, <2>1, <2>2, <2>3
<1> QED  BY <1>1 DEF Claim

LEMMA OneRequestFrame ==
  ASSUME TypeInv, NEW r \in Clients, NEW q, req' = [req EXCEPT ![r] = q],
         q.pc \notin {"adding", "inserting"},
         q.pc \in RemovePcs => q.op # "recreate"
  PROVE  RequestsFrame
<1>1. req \in [Clients -> RequestRecords]
  BY RequestTypes
<1> QED  BY <1>1 DEF RequestsFrame, HasNewKey

LEMMA MoveFrame ==
  ASSUME TypeInv, NEW r \in Clients,
         \/ Finish(r)
         \/ \E pc : /\ Goto(r, pc)
                    /\ \/ pc \in {"countPeers", "findServer", "findPeers"}
                       \/ req[r].pc = "adding" /\ pc = "inserting"
                       \/ req[r].pc \in RemovePcs /\ pc \in RemovePcs
  PROVE  RequestsFrame
<1>1. req \in [Clients -> RequestRecords] /\ req[r] \in RequestRecords
  BY RequestTypes
<1>2. CASE Finish(r)
  BY <1>2, OneRequestFrame DEF Finish, Idle, RemovePcs
<1>3. ASSUME NEW pc, Goto(r, pc),
             \/ pc \in {"countPeers", "findServer", "findPeers"}
             \/ req[r].pc = "adding" /\ pc = "inserting"
             \/ req[r].pc \in RemovePcs /\ pc \in RemovePcs
      PROVE  RequestsFrame
  <2>1. /\ \A p \in Clients \ {r} : req'[p] = req[p]
        /\ req'[r] = [req[r] EXCEPT !.pc = pc]
    BY <1>1, <1>3 DEF Goto
  <2>2. /\ req'[r].pc = pc /\ req'[r].op = req[r].op /\ req'[r].key = req[r].key
        /\ req'[r].server = req[r].server /\ req'[r].ip = req[r].ip
    BY <1>1, <2>1 DEF RequestRecords
  <2> QED  BY <1>3, <2>1, <2>2 DEF RequestsFrame, HasNewKey, RemovePcs
<1> QED  BY <1>2, <1>3

LEMMA StepKinds ==
  TypeInv /\ [Next]_vars =>
    NeitherKind \/ \E r \in Clients : FindPeers(r) \/ StoreKind(r)
<1> SUFFICES ASSUME TypeInv, [Next]_vars,
                    ~ \E r \in Clients : FindPeers(r) \/ StoreKind(r)
             PROVE  NeitherKind
  OBVIOUS
<1> USE DEF At
<1>0. req \in [Clients -> RequestRecords] /\ rows \in [Keys -> Rows]
  BY DEF TypeInv, TypeOK
<1>1. UNCHANGED req => RequestsFrame
  BY DEF RequestsFrame, HasNewKey
<1>2. UNCHANGED rows => RowsOnlyClose
  BY <1>0 DEF RowsOnlyClose
<1>3. UNCHANGED agentVars => NoNewClaim
  BY PanelClaims DEF agentVars
<1>4. CASE UNCHANGED vars
  BY <1>1, <1>2, <1>3, <1>4 DEF vars, panelVars, NeitherKind
<1>5. CASE AgentNext
  BY <1>1, <1>2, <1>5, AgentClaims DEF AgentNext, panelVars, NeitherKind
<1>6. CASE EnvStep
  <2>1. CASE PanelCrash
    <3>1. NoNewClaim
      BY <2>1, PanelClaims DEF PanelCrash
    <3>2. RequestsFrame
      BY <2>1 DEF PanelCrash, RequestsFrame, Idle, HasNewKey, RemovePcs
    <3> QED  BY <1>2, <2>1, <3>1, <3>2 DEF PanelCrash, NeitherKind
  <2>2. ASSUME SubscriptionsChange  PROVE NeitherKind
    BY <1>1, <1>2, <1>3, <2>2 DEF SubscriptionsChange, panelVars, NeitherKind
  <2>3. ASSUME NEW s \in Servers, HealthChanges(s)  PROVE NeitherKind
    BY <1>1, <1>2, <1>3, <2>3 DEF HealthChanges, panelVars, NeitherKind
  <2>4. ASSUME NEW s \in Servers, ServerDeleted(s)  PROVE NeitherKind
    <3>1. RowsOnlyClose
      BY <1>0, <2>4, CloseSteps
    <3> QED  BY <1>1, <1>3, <2>4, <3>1 DEF ServerDeleted, NeitherKind
  <2> QED  BY <1>6, <2>1, <2>2, <2>3, <2>4 DEF EnvStep
<1>7. ASSUME NEW r \in Clients, Begin(r)  PROVE NeitherKind
  <2>1. UNCHANGED <<agentVars, rows, issued>>
    BY <1>7 DEF Begin, BeginCreate, BeginRecreate, BeginRevoke, BeginAdminDelete
  <2>2. ASSUME NEW u \in Users, NEW s \in Servers, BeginCreate(r, u, s)
        PROVE  RequestsFrame
    <3> DEFINE q == [Idle EXCEPT !.op = "create", !.pc = "countPeers",
                                 !.user = u, !.server = s]
    <3>1. req' = [req EXCEPT ![r] = q]
      BY <2>2 DEF BeginCreate
    <3>2. q.pc = "countPeers"
      BY DEF Idle
    <3> HIDE DEF q
    <3> QED  BY <3>1, <3>2, OneRequestFrame DEF RemovePcs
  <2>3. ASSUME NEW u \in Users, NEW k \in Keys, BeginRecreate(r, u, k)
        PROVE  RequestsFrame
    <3> DEFINE q == [Idle EXCEPT !.op = "recreate", !.pc = "getActive", !.user = u,
                                 !.server = rows[k].server, !.peer = k]
    <3>1. req' = [req EXCEPT ![r] = q]
      BY <2>3 DEF BeginRecreate
    <3>2. q.pc = "getActive"
      BY DEF Idle
    <3> HIDE DEF q
    <3> QED  BY <3>1, <3>2, OneRequestFrame DEF RemovePcs
  <2>4. ASSUME NEW u \in Users, NEW k \in Keys, BeginRevoke(r, u, k)
        PROVE  RequestsFrame
    <3> DEFINE q == [Idle EXCEPT !.op = "revoke", !.pc = "findNode", !.user = u,
                                 !.server = rows[k].server, !.peer = k]
    <3>1. req' = [req EXCEPT ![r] = q]
      BY <2>4 DEF BeginRevoke
    <3>2. q.pc = "findNode" /\ q.op = "revoke"
      BY DEF Idle
    <3> HIDE DEF q
    <3> QED  BY <3>1, <3>2, OneRequestFrame
  <2>5. ASSUME NEW k \in Keys, BeginAdminDelete(r, k)
        PROVE  RequestsFrame
    <3> DEFINE q == [Idle EXCEPT !.op = "adminDelete",
                                 !.pc = IF IsActive(k) THEN "findNode" ELSE "closing",
                                 !.user = rows[k].user,
                                 !.server = rows[k].server, !.peer = k]
    <3>1. req' = [req EXCEPT ![r] = q]
      BY <2>5 DEF BeginAdminDelete
    <3>2. q.pc \in {"findNode", "closing"} /\ q.op = "adminDelete"
      BY DEF Idle
    <3> HIDE DEF q
    <3> QED  BY <3>1, <3>2, OneRequestFrame
  <2>6. RequestsFrame
    BY <1>7, <2>2, <2>3, <2>4, <2>5 DEF Begin
  <2> QED  BY <1>2, <1>3, <2>1, <2>6 DEF NeitherKind
<1>8. ASSUME NEW r \in Clients, RequestStep(r)  PROVE NeitherKind
  <2>1. CASE GetActive(r) \/ CountPeers(r) \/ FindServer(r) \/ LoadOwned(r)
    <3>1. RequestsFrame
      BY <2>1, MoveFrame DEF GetActive, CountPeers, FindServer, LoadOwned, Check, RemovePcs
    <3> QED
      BY <1>2, <1>3, <2>1, <3>1
         DEF GetActive, CountPeers, FindServer, LoadOwned, Check, NeitherKind
  <2>2. CASE FindPeersThrows(r)
    BY <1>2, <1>3, <2>2, MoveFrame DEF FindPeersThrows, NeitherKind
  <2>3. CASE AddPeerOk(r) \/ AddPeerFails(r) \/ RemovePeerReturns(r)
    <3>1. RequestsFrame
      BY <2>3, MoveFrame DEF AddPeerOk, AddPeerFails, RemovePeerReturns, RemovePcs
    <3>2. NoNewClaim
      BY <2>3, PanelClaims DEF AddPeerOk, AddPeerFails, RemovePeerReturns
    <3> QED
      BY <1>2, <2>3, <3>1, <3>2 DEF AddPeerOk, AddPeerFails, RemovePeerReturns, NeitherKind
  <2>4. CASE Insert(r)
    <3>1. Finish(r) /\ UNCHANGED rows /\ UNCHANGED <<agentVars, issued>>
      BY <1>8, <2>4 DEF Insert, NewRow, StoreKind
    <3> QED  BY <1>2, <1>3, <3>1, MoveFrame DEF NeitherKind
  <2>5. CASE FindNode(r)
    <3>1. RequestsFrame
      BY <2>5, MoveFrame DEF FindNode, RemovePcs
    <3>2. req[r].server \in Servers /\ req[r].peer \in Keys
      BY <2>5, RequestTypes DEF FindNode, RequestTyped, RemovePcs
    <3>3. NoNewClaim
      BY <2>5, <3>2, PanelClaims DEF FindNode
    <3> QED  BY <1>2, <2>5, <3>1, <3>3 DEF FindNode, NeitherKind
  <2>6. CASE MarkRevoked(r) \/ DeleteRow(r)
    <3>1. RowsOnlyClose
      BY <1>0, <2>6, CloseSteps
    <3> QED  BY <1>3, <2>6, <3>1, MoveFrame DEF MarkRevoked, DeleteRow, NeitherKind
  <2>7. CASE Timeout(r)
    <3>1. RequestsFrame
      BY <2>7, MoveFrame DEF Timeout, RemovePcs
    <3>2. NoNewClaim
      BY <2>7, PanelClaims DEF Timeout
    <3> QED  BY <1>2, <2>7, <3>1, <3>2 DEF Timeout, NeitherKind
  <2> QED  BY <1>8, <2>1, <2>2, <2>3, <2>4, <2>5, <2>6, <2>7 DEF RequestStep
<1> QED  BY <1>4, <1>5, <1>6, <1>7, <1>8 DEF Next

-----------------------------------------------------------------------------
(* The inductive invariant.  A key is generated once, for one request, and *)
(* everything that routes it agrees with that request until its row is     *)
(* stored and with the row from then on (RoutesPlaced).                    *)
SafeInv == /\ TypeInv
           /\ KeysFresh /\ RoutesPlaced
           /\ NoSharedAddress /\ AddressHeldIffActive /\ RecreateStoresFirst

ClaimsPlaced == \A k \in Keys, s \in Servers, a \in Ips : Claim(k, s, a) => Placed(k, s, a)

LEMMA RoutesPlacedIsClaimsPlaced == TypeInv => (RoutesPlaced <=> ClaimsPlaced)
<1> SUFFICES ASSUME TypeInv PROVE RoutesPlaced <=> ClaimsPlaced
  OBVIOUS
<1>1. /\ routes \in [Servers -> Tables] /\ conf \in [Servers -> Tables]
      /\ \A c \in calls : c \in CallRecords /\ (c.op = "add" => c.ip \in Ips)
  BY DEF TypeInv, TypeOK, AgentTypeOK, CallsTyped
<1>2. ASSUME RoutesPlaced  PROVE ClaimsPlaced
  BY <1>1, <1>2, NodeAgentAssumption DEF RoutesPlaced, ClaimsPlaced, Claim
<1>3. ASSUME ClaimsPlaced  PROVE RoutesPlaced
  <2>1. ASSUME NEW s \in Servers, NEW a \in Ips,
               NEW k \in {routes[s][a], conf[s][a]} \ {NoKey}
        PROVE  Placed(k, s, a)
    BY <1>1, <1>3, <2>1 DEF ClaimsPlaced, Claim, Tables
  <2>2. ASSUME NEW c \in calls
        PROVE  /\ c.op = "add" => Placed(c.key, c.server, c.ip)
               /\ \A a \in Ips : c.snapshot[a] # NoKey => Placed(c.snapshot[a], c.server, a)
    BY <1>1, <1>3, <2>2 DEF ClaimsPlaced, Claim, CallRecords, Tables
  <2> QED  BY <2>1, <2>2 DEF RoutesPlaced
<1> QED  BY <1>2, <1>3

LEMMA InitSafeInv == Init => SafeInv
<1> SUFFICES ASSUME Init PROVE SafeInv
  OBVIOUS
<1>1. TypeInv
  BY InitTypeInv
<1>2. /\ \A k \in Keys : rows[k] = NoRow
      /\ \A r \in Clients : req[r] = Idle
      /\ \A s \in Servers, a \in Ips : routes[s][a] = NoKey /\ conf[s][a] = NoKey
      /\ calls = {}
  BY DEF Init, AgentInit, NoTable
<1>3. KeysFresh
  BY <1>2 DEF KeysFresh, NoRow, Idle, HasNewKey
<1>4. RoutesPlaced
  BY <1>2 DEF RoutesPlaced
<1>5. NoSharedAddress /\ AddressHeldIffActive
  BY <1>2 DEF NoSharedAddress, AddressHeldIffActive, NoRow, IsActive
<1>6. RecreateStoresFirst
  BY <1>2 DEF RecreateStoresFirst, Idle
<1> QED  BY <1>1, <1>3, <1>4, <1>5, <1>6 DEF SafeInv

(* A step that neither allocates nor stores.                               *)
LEMMA SafeNeither == SafeInv /\ TypeInv' /\ NeitherKind => SafeInv'
<1> SUFFICES ASSUME SafeInv, TypeInv', NeitherKind PROVE SafeInv'
  OBVIOUS
<1> USE DEF SafeInv, NeitherKind
<1>0. rows \in [Keys -> Rows] /\ rows' \in [Keys -> Rows]
  BY DEF TypeInv, TypeOK
<1>1. \A k \in Keys :
        /\ rows[k].status = "NONE" <=> rows'[k].status = "NONE"
        /\ IsActive(k)' => rows'[k] = rows[k]
        /\ rows'[k] = rows[k] \/ (rows'[k].ip = Null /\ ~IsActive(k)')
  BY <1>0 DEF RowsOnlyClose, IsActive, Exists, Rows
<1>2. KeysFresh'
  <2>1. \A r \in Clients : HasNewKey(r) => req[r].key \in Keys
    BY RequestTypes DEF RequestTyped, HasNewKey
  <2> QED  BY <1>1, <2>1 DEF KeysFresh, RequestsFrame
<1>3. NoSharedAddress' /\ AddressHeldIffActive'
  BY <1>1 DEF NoSharedAddress, AddressHeldIffActive, IsActive
<1>4. RecreateStoresFirst'
  <2> SUFFICES ASSUME NEW r \in Clients,
                      req'[r].op = "recreate", req'[r].pc \in RemovePcs
               PROVE  req'[r].key # Null /\ rows'[req'[r].key].status # "NONE"
    BY DEF RecreateStoresFirst
  <2>1. req'[r].key = req[r].key /\ req[r].key # Null /\ rows[req[r].key].status # "NONE"
    BY DEF RequestsFrame, RecreateStoresFirst
  <2>2. req[r].key \in Keys
    BY <2>1, RequestTypes DEF RequestRecords
  <2> QED  BY <1>1, <2>1, <2>2
<1>5. RoutesPlaced'
  <2>1. ClaimsPlaced
    BY RoutesPlacedIsClaimsPlaced
  <2>2. ClaimsPlaced'
    <3> SUFFICES ASSUME NEW k \in Keys, NEW s \in Servers, NEW a \in Ips, Claim(k, s, a)'
                 PROVE  Placed(k, s, a)'
      BY DEF ClaimsPlaced
    <3>1. Placed(k, s, a)
      BY <2>1 DEF NoNewClaim, ClaimsPlaced
    <3>2. IsActive(k)' => rows'[k].server = s /\ rows'[k].ip = a
      BY <1>1, <3>1 DEF Placed, IsActive
    <3> QED  BY <3>1, <3>2 DEF Placed, RequestsFrame
  <2> QED  BY <2>2, RoutesPlacedIsClaimsPlaced, PTL
<1> QED  BY <1>2, <1>3, <1>4, <1>5

(* The step that allocates: its key is new to everything.                  *)
LEMMA SafeAllocate ==
  ASSUME SafeInv, TypeInv', NEW r \in Clients, FindPeers(r)
  PROVE  SafeInv'
<1> USE DEF SafeInv
<1>0. req \in [Clients -> RequestRecords] /\ req[r] \in RequestRecords
  BY RequestTypes
<1> DEFINE s == req[r].server
           a == nextFreeIp(Subnet, ServerAddress, UsedIps(s))
<1>1. PICK k \in Keys \ issued :
        /\ issued' = issued \cup {k}
        /\ addPeer(r, s, k, a)
        /\ req' = [req EXCEPT ![r].pc = "adding", ![r].key = k, ![r].ip = a]
  BY DEF FindPeers, CanAllocate
<1>2. UNCHANGED <<routes, conf, rows>> /\ req[r].pc = "findPeers"
  BY DEF FindPeers, At
<1> HIDE DEF a
<1>3. /\ \A q \in Clients \ {r} : req'[q] = req[q]
      /\ req'[r].pc = "adding" /\ req'[r].key = k /\ req'[r].ip = a /\ req'[r].server = s
  BY <1>0, <1>1 DEF RequestRecords
<1>4. rows[k].status = "NONE" /\ ~IsActive(k)
  BY <1>1 DEF KeysFresh, IsActive
<1>5. KeysFresh'
  <2>1. \A q \in Clients : HasNewKey(q) =>
          req[q].key \in issued /\ rows[req[q].key].status = "NONE"
    BY DEF KeysFresh
  <2>2. \A q \in Clients : HasNewKey(q)' =>
          \/ q = r /\ req'[q].key = k
          \/ HasNewKey(q) /\ req'[q].key = req[q].key /\ req[q].key # k
    BY <1>3, <2>1 DEF HasNewKey
  <2>3. ASSUME NEW q \in Clients, HasNewKey(q)'
        PROVE  /\ req'[q].key \in issued'
               /\ rows'[req'[q].key].status = "NONE"
    <3>1. CASE req'[q].key = k
      BY <1>1, <1>2, <1>4, <3>1
    <3>2. CASE req'[q].key # k
      <4>1. HasNewKey(q) /\ req'[q].key = req[q].key
        BY <2>2, <2>3, <3>2
      <4> QED  BY <1>1, <1>2, <2>1, <4>1
    <3> QED  BY <3>1, <3>2
  <2>4. \A p, q \in Clients :
          HasNewKey(p)' /\ HasNewKey(q)' /\ req'[p].key = req'[q].key => p = q
    BY <2>2 DEF KeysFresh
  <2>5. \A j \in Keys : rows'[j].status # "NONE" => j \in issued'
    BY <1>1, <1>2 DEF KeysFresh
  <2> QED  BY <2>3, <2>4, <2>5 DEF KeysFresh
<1>6. NoSharedAddress' /\ AddressHeldIffActive'
  BY <1>2 DEF NoSharedAddress, AddressHeldIffActive, IsActive
<1>7. RecreateStoresFirst'
  BY <1>2, <1>3 DEF RecreateStoresFirst, RemovePcs
<1>8. RoutesPlaced'
  <2>1. ClaimsPlaced
    BY RoutesPlacedIsClaimsPlaced
  <2>2. ClaimsPlaced'
    <3> SUFFICES ASSUME NEW j \in Keys, NEW t \in Servers, NEW b \in Ips, Claim(j, t, b)'
                 PROVE  Placed(j, t, b)'
      BY DEF ClaimsPlaced
    <3>1. Claim(j, t, b) \/ (j = k /\ t = s /\ b = a)
      <4>1. j # NoKey
        BY NodeAgentAssumption
      <4> QED  BY <1>1, <1>2, <4>1 DEF Claim, addPeer, Call, NoTable
    <3>2. CASE Claim(j, t, b)
      <4>1. Placed(j, t, b)
        BY <2>1, <3>2 DEF ClaimsPlaced
      <4>2. j # k
        BY <1>1, <4>1 DEF Placed
      <4> QED  BY <1>1, <1>2, <1>3, <4>1, <4>2 DEF Placed, HasNewKey, IsActive
    <3>3. CASE j = k /\ t = s /\ b = a
      <4>1. \A q \in Clients : HasNewKey(q)' /\ req'[q].key = k => q = r
        BY <1>1, <1>3 DEF HasNewKey, KeysFresh
      <4> QED  BY <1>1, <1>2, <1>3, <1>4, <3>3, <4>1 DEF Placed, IsActive
    <3> QED  BY <3>1, <3>2, <3>3
  <2> QED  BY <2>2, RoutesPlacedIsClaimsPlaced, PTL
<1> QED  BY <1>5, <1>6, <1>7, <1>8

(* The step that stores a row, past the foreign key and the unique index.  *)
LEMMA SafeStore ==
  ASSUME SafeInv, TypeInv', NEW r \in Clients, StoreKind(r)
  PROVE  SafeInv'
<1> USE DEF SafeInv
<1> DEFINE new == [status |-> "ACTIVE", user |-> req[r].user,
                   server |-> req[r].server, ip |-> req[r].ip]
           k   == req[r].key
<1>0. /\ req \in [Clients -> RequestRecords] /\ req[r] \in RequestRecords
      /\ rows \in [Keys -> Rows]
  BY RequestTypes DEF TypeInv, TypeOK
<1>1. /\ HasNewKey(r) /\ k \in Keys /\ req[r].ip \in Ips
      /\ Insertable(req[r].server, req[r].ip)
  BY RequestTypes DEF StoreKind, At, HasNewKey, RequestTyped
<1>2. /\ rows' = [rows EXCEPT ![k] = new]
      /\ Goto(r, "loadOwned") \/ Finish(r)
      /\ UNCHANGED <<agentVars, issued>>
  BY DEF StoreKind, Insert, NewRow
<1>3. /\ \A j \in Keys \ {k} : rows'[j] = rows[j]
      /\ rows'[k] = new
      /\ new.status = "ACTIVE" /\ new.ip = req[r].ip /\ new.server = req[r].server
  BY <1>0, <1>1, <1>2
<1>4. /\ \A q \in Clients \ {r} : req'[q] = req[q]
      /\ ~HasNewKey(r)'
      /\ req'[r].op = "recreate" => req'[r].key = k
  BY <1>0, <1>2 DEF Goto, Finish, Idle, HasNewKey, RequestRecords
<1> HIDE DEF new
<1>5. rows[k].status = "NONE" /\ k \in issued
  BY <1>1 DEF KeysFresh
<1>6. KeysFresh'
  <2>1. ASSUME NEW q \in Clients, HasNewKey(q)'
        PROVE  HasNewKey(q) /\ req'[q] = req[q] /\ req[q].key # k /\ req[q].key \in Keys
    <3>1. q # r /\ HasNewKey(q) /\ req'[q] = req[q]
      BY <1>4, <2>1 DEF HasNewKey
    <3>2. req[q].key # k
      BY <1>1, <3>1 DEF KeysFresh
    <3> QED  BY <3>1, <3>2, RequestTypes DEF RequestTyped, HasNewKey
  <2> QED  BY <1>2, <1>3, <1>5, <2>1 DEF KeysFresh
<1>7. NoSharedAddress'
  <2>1. \A j \in Keys \ {k} : IsActive(j) /\ rows[j].server = new.server =>
          rows[j].ip # new.ip
    BY <1>1, <1>3 DEF Insertable, IsActive, Exists
  <2> QED  BY <1>3, <2>1 DEF NoSharedAddress, IsActive
<1>8. AddressHeldIffActive'
  BY <1>1, <1>3, NodeAgentAssumption DEF AddressHeldIffActive, IsActive
<1>9. RecreateStoresFirst'
  <2> SUFFICES ASSUME NEW q \in Clients,
                      req'[q].op = "recreate", req'[q].pc \in RemovePcs
               PROVE  req'[q].key # Null /\ rows'[req'[q].key].status # "NONE"
    BY DEF RecreateStoresFirst
  <2>1. CASE q = r
    BY <1>1, <1>3, <1>4, <2>1, PeersAssumption
  <2>2. CASE q # r
    <3>1. /\ req'[q] = req[q] /\ req[q].key # Null
          /\ rows[req[q].key].status # "NONE"
      BY <1>4, <2>2 DEF RecreateStoresFirst
    <3>2. req[q].key \in Keys
      BY <3>1, RequestTypes DEF RequestRecords
    <3> QED  BY <1>3, <3>1, <3>2
  <2> QED  BY <2>1, <2>2
<1>10. RoutesPlaced'
  <2>1. ClaimsPlaced
    BY RoutesPlacedIsClaimsPlaced
  <2>2. ClaimsPlaced'
    <3> SUFFICES ASSUME NEW j \in Keys, NEW t \in Servers, NEW b \in Ips, Claim(j, t, b)'
                 PROVE  Placed(j, t, b)'
      BY DEF ClaimsPlaced
    <3>1. Placed(j, t, b)
      BY <1>2, <2>1 DEF Claim, agentVars, ClaimsPlaced
    <3>2. IsActive(j)' => rows'[j].server = t /\ rows'[j].ip = b
      BY <1>1, <1>3, <3>1 DEF Placed, IsActive
    <3>3. \A q \in Clients : HasNewKey(q)' => HasNewKey(q) /\ req'[q] = req[q]
      BY <1>4 DEF HasNewKey
    <3> QED  BY <1>2, <3>1, <3>2, <3>3 DEF Placed
  <2> QED  BY <2>2, RoutesPlacedIsClaimsPlaced, PTL
<1> QED  BY <1>6, <1>7, <1>8, <1>9, <1>10

LEMMA SafeStep == SafeInv /\ [Next]_vars => SafeInv'
<1> SUFFICES ASSUME SafeInv, [Next]_vars PROVE SafeInv'
  OBVIOUS
<1>1. TypeInv'
  BY TypeStep DEF SafeInv
<1> QED  BY <1>1, StepKinds, SafeNeither, SafeAllocate, SafeStore DEF SafeInv

(* No address of a node is ever held by two ACTIVE peers.                  *)
THEOREM AddressesNeverShared == Spec => []NoSharedAddress
<1>1. SafeInv => NoSharedAddress
  BY DEF SafeInv
<1> QED  BY InitSafeInv, SafeStep, <1>1, PTL DEF Spec

(* Revoking and deleting always give the address back, and nothing else    *)
(* does.                                                                   *)
THEOREM AddressesReleased == Spec => []AddressHeldIffActive
<1>1. SafeInv => AddressHeldIffActive
  BY DEF SafeInv
<1> QED  BY InitSafeInv, SafeStep, <1>1, PTL DEF Spec

(* A recreate never takes the old peer down before the new one is stored.  *)
THEOREM RecreateKeepsOldPeer == Spec => []RecreateStoresFirst
<1>1. SafeInv => RecreateStoresFirst
  BY DEF SafeInv
<1> QED  BY InitSafeInv, SafeStep, <1>1, PTL DEF Spec

(* No node ever routes a stored peer at an address, or on a server, other  *)
(* than the one in its row, whatever was lost, delayed, saved or restarted.*)
THEOREM RoutesMatchRows == Spec => []RouteMatchesRow
<1>1. SafeInv => RouteMatchesRow
  BY DEF SafeInv, RoutesPlaced, Placed, RouteMatchesRow
<1> QED  BY InitSafeInv, SafeStep, <1>1, PTL DEF Spec

-----------------------------------------------------------------------------
(* The table as a ledger of leases.                                        *)
LeaseOf(k) == [key |-> k, user |-> rows[k].user, server |-> rows[k].server, ip |-> rows[k].ip]

Held == {LeaseOf(k) : k \in {j \in Keys : IsActive(j)}}
Used == {k \in Keys : rows[k].status # "NONE"}

LEMMA LedgerNext ==
  ASSUME \/ \E k \in Keys, u \in Users, s \in Servers, a \in Ips :
              /\ k \notin Used
              /\ \A l \in Held : ~(l.server = s /\ l.ip = a)
              /\ Held' = Held \cup {[key |-> k, user |-> u, server |-> s, ip |-> a]}
              /\ Used' = Used \cup {k}
         \/ \E ended \in SUBSET Held : Held' = Held \ ended /\ UNCHANGED Used
  PROVE  Ledger!Next
BY DEF Ledger!Next, Ledger!Lease, Ledger!End, Held, Used, LeaseOf

(* What closes rows ends their leases.                                     *)
LEMMA LeasesEnd == ASSUME TypeInv, RowsOnlyClose PROVE Ledger!Next
<1>1. \A k \in Keys :
        /\ rows[k].status = "NONE" <=> rows'[k].status = "NONE"
        /\ IsActive(k)' => rows'[k] = rows[k] /\ IsActive(k)
  BY DEF RowsOnlyClose, IsActive, Exists
<1>2. PICK ended : ended = {LeaseOf(k) : k \in {j \in Keys : IsActive(j) /\ ~IsActive(j)'}}
  OBVIOUS
<1>3. ASSUME NEW l \in Held' PROVE l \in Held /\ l \notin ended
  <2>1. PICK k \in Keys : IsActive(k)' /\ l = LeaseOf(k)'
    BY <1>3 DEF Held
  <2>2. l = LeaseOf(k) /\ IsActive(k)
    BY <1>1, <2>1 DEF LeaseOf
  <2>3. \A j \in Keys : l = LeaseOf(j) => j = k
    BY <2>2 DEF LeaseOf
  <2> QED BY <1>2, <2>1, <2>2, <2>3 DEF Held
<1>4. ASSUME NEW l \in Held, l \notin ended PROVE l \in Held'
  <2>1. PICK k \in Keys : IsActive(k) /\ l = LeaseOf(k)
    BY <1>4 DEF Held
  <2>2. IsActive(k)'
    BY <1>2, <1>4, <2>1
  <2>3. l = LeaseOf(k)'
    BY <1>1, <2>1, <2>2 DEF LeaseOf
  <2> QED BY <2>2, <2>3 DEF Held
<1>5. Held' = Held \ ended /\ ended \in SUBSET Held
  BY <1>2, <1>3, <1>4 DEF Held
<1>6. UNCHANGED Used
  BY <1>1 DEF Used
<1> QED BY <1>5, <1>6, LedgerNext

(* What stores a row begins the lease of a key that never had one, on an   *)
(* address that the unique index found free.                               *)
LEMMA LeaseBegins == ASSUME SafeInv, NEW r \in Clients, StoreKind(r) PROVE Ledger!Next
<1>0. PICK k, new : /\ k = req[r].key
                   /\ new = [status |-> "ACTIVE", user |-> req[r].user,
                             server |-> req[r].server, ip |-> req[r].ip]
  OBVIOUS
<1>1. /\ k \in Keys /\ req[r].user \in Users /\ req[r].server \in Servers /\ req[r].ip \in Ips
      /\ rows \in [Keys -> Rows]
      /\ Insertable(req[r].server, req[r].ip)
  BY <1>0, RequestTypes DEF StoreKind, At, HasNewKey, RequestTyped, SafeInv, TypeInv, TypeOK
<1>2. rows[k].status = "NONE"
  BY <1>0 DEF StoreKind, At, HasNewKey, SafeInv, KeysFresh
<1>3. /\ \A j \in Keys \ {k} : rows'[j] = rows[j]
      /\ rows'[k] = new
      /\ new.status = "ACTIVE" /\ new.ip = req[r].ip /\ new.server = req[r].server
      /\ new.user = req[r].user
  <2>1. rows' = [rows EXCEPT ![k] = new]
    BY <1>0 DEF StoreKind, Insert, NewRow
  <2> QED BY <1>0, <1>1, <2>1
<1>4. PICK lease : lease = [key |-> k, user |-> req[r].user, server |-> req[r].server, ip |-> req[r].ip]
  OBVIOUS
<1>5. LeaseOf(k)' = lease /\ \A j \in Keys \ {k} : LeaseOf(j)' = LeaseOf(j)
  BY <1>3, <1>4 DEF LeaseOf
<1>6. \A j \in Keys : IsActive(j)' <=> IsActive(j) \/ j = k
  BY <1>3 DEF IsActive
<1>7. Held' = Held \cup {lease}
  <2>1. \A l : l \in Held' <=> \E j \in Keys : IsActive(j)' /\ l = LeaseOf(j)'
    BY DEF Held
  <2>2. \A l : l \in Held <=> \E j \in Keys : IsActive(j) /\ l = LeaseOf(j)
    BY DEF Held
  <2>3. ~IsActive(k)
    BY <1>2 DEF IsActive
  <2>4. ASSUME NEW l \in Held' PROVE l \in Held \cup {lease}
    BY <1>5, <1>6, <2>1, <2>2, <2>4
  <2>5. ASSUME NEW l \in Held PROVE l \in Held'
    BY <1>5, <1>6, <2>1, <2>2, <2>3, <2>5
  <2>6. lease \in Held'
    BY <1>1, <1>5, <1>6, <2>1
  <2> QED BY <2>4, <2>5, <2>6
<1>8. Used' = Used \cup {k} /\ k \notin Used
  BY <1>1, <1>2, <1>3 DEF Used
<1>9. \A l \in Held : ~(l.server = req[r].server /\ l.ip = req[r].ip)
  <2> SUFFICES ASSUME NEW j \in Keys, IsActive(j)
      PROVE  ~(LeaseOf(j).server = req[r].server /\ LeaseOf(j).ip = req[r].ip)
    BY DEF Held
  <2> QED BY <1>1 DEF LeaseOf, Insertable, Exists, IsActive
<1> QED BY <1>1, <1>4, <1>7, <1>8, <1>9, LedgerNext

(* The table of peers keeps the ledger: for any number of concurrent       *)
(* requests, and whatever times out, restarts or is deleted, a lease is    *)
(* given once, of a free address, and runs unchanged until it ends.        *)
THEOREM PeersKeepLedger == Spec => KeepsLedger
<1>1. Init => Ledger!Init
  BY DEF Init, NoRow, IsActive, Ledger!Init
<1>2. SafeInv /\ [Next]_vars => [Ledger!Next]_<<Held, Used>>
  <2>1. ASSUME TypeInv, NEW r \in Clients, FindPeers(r) PROVE UNCHANGED <<Held, Used>>
    BY <2>1 DEF FindPeers, Held, Used, LeaseOf, IsActive
  <2>2. NeitherKind => RowsOnlyClose
    BY DEF NeitherKind
  <2> QED BY <2>1, <2>2, StepKinds, LeasesEnd, LeaseBegins DEF SafeInv
<1>3. [Ledger!Next]_<<Held, Used>>
        => [Ledger!Next]_<<{[key |-> k, user |-> rows[k].user, server |-> rows[k].server,
                             ip |-> rows[k].ip] : k \in {j \in Keys : IsActive(j)}},
                           {k \in Keys : rows[k].status # "NONE"}>>
  BY DEF Held, Used, LeaseOf
<1> QED BY <1>1, <1>2, <1>3, InitSafeInv, SafeStep, PTL DEF Spec, KeepsLedger, Ledger!Spec

-----------------------------------------------------------------------------
(* By how much concurrent requests can exceed the two limits.              *)

PendingPcs == {"findServer", "findPeers", "adding", "inserting"}

UserPendingFrame ==
  \A r \in Clients : req'[r].pc \in PendingPcs =>
    req[r].pc \in PendingPcs /\ req'[r].user = req[r].user

(* Only CountPeers makes a request pending.                                *)
LEMMA UserPendingSteps ==
  TypeInv /\ [Next]_vars => UserPendingFrame \/ \E r \in Clients : CountPeers(r)
<1> SUFFICES ASSUME TypeInv, [Next]_vars, ~ \E r \in Clients : CountPeers(r)
             PROVE  UserPendingFrame
  OBVIOUS
<1> USE DEF At
<1>0. req \in [Clients -> RequestRecords]
  BY DEF TypeInv, TypeOK
<1>1. ASSUME UNCHANGED req  PROVE UserPendingFrame
  BY <1>1 DEF UserPendingFrame
<1>2. ASSUME NEW r \in Clients, NEW q, req' = [req EXCEPT ![r] = q],
             q.pc \in PendingPcs => req[r].pc \in PendingPcs /\ q.user = req[r].user
      PROVE  UserPendingFrame
  BY <1>0, <1>2 DEF UserPendingFrame
<1>3. ASSUME NEW r \in Clients, NEW pc, Goto(r, pc),
             pc \in PendingPcs => req[r].pc \in PendingPcs
      PROVE  UserPendingFrame
  <2> DEFINE q == [req[r] EXCEPT !.pc = pc]
  <2>1. q.pc = pc /\ q.user = req[r].user
    BY <1>0 DEF RequestRecords
  <2>2. req' = [req EXCEPT ![r] = q]
    BY <1>3 DEF Goto
  <2> HIDE DEF q
  <2> QED  BY <1>2, <1>3, <2>1, <2>2
<1>4. ASSUME NEW r \in Clients, Finish(r)  PROVE UserPendingFrame
  BY <1>2, <1>4 DEF Finish, Idle, PendingPcs
<1>5. CASE UNCHANGED vars \/ AgentNext
  BY <1>1, <1>5 DEF vars, panelVars, AgentNext
<1>6. CASE EnvStep
  <2>1. CASE PanelCrash
    BY <2>1 DEF PanelCrash, UserPendingFrame, Idle, PendingPcs
  <2> QED
    BY <1>1, <1>6, <2>1
       DEF EnvStep, SubscriptionsChange, HealthChanges, ServerDeleted, panelVars
<1>7. ASSUME NEW r \in Clients, Begin(r)  PROVE UserPendingFrame
  <2>1. ASSUME NEW u \in Users, NEW s \in Servers, BeginCreate(r, u, s)
        PROVE  UserPendingFrame
    <3> DEFINE q == [Idle EXCEPT !.op = "create", !.pc = "countPeers",
                                 !.user = u, !.server = s]
    <3>1. req' = [req EXCEPT ![r] = q]
      BY <2>1 DEF BeginCreate
    <3>2. q.pc \notin PendingPcs
      BY DEF Idle, PendingPcs
    <3> HIDE DEF q
    <3> QED  BY <1>2, <3>1, <3>2
  <2>2. ASSUME NEW u \in Users, NEW k \in Keys, BeginRecreate(r, u, k)
        PROVE  UserPendingFrame
    <3> DEFINE q == [Idle EXCEPT !.op = "recreate", !.pc = "getActive", !.user = u,
                                 !.server = rows[k].server, !.peer = k]
    <3>1. req' = [req EXCEPT ![r] = q]
      BY <2>2 DEF BeginRecreate
    <3>2. q.pc \notin PendingPcs
      BY DEF Idle, PendingPcs
    <3> HIDE DEF q
    <3> QED  BY <1>2, <3>1, <3>2
  <2>3. ASSUME NEW u \in Users, NEW k \in Keys, BeginRevoke(r, u, k)
        PROVE  UserPendingFrame
    <3> DEFINE q == [Idle EXCEPT !.op = "revoke", !.pc = "findNode", !.user = u,
                                 !.server = rows[k].server, !.peer = k]
    <3>1. req' = [req EXCEPT ![r] = q]
      BY <2>3 DEF BeginRevoke
    <3>2. q.pc \notin PendingPcs
      BY DEF Idle, PendingPcs
    <3> HIDE DEF q
    <3> QED  BY <1>2, <3>1, <3>2
  <2>4. ASSUME NEW k \in Keys, BeginAdminDelete(r, k)
        PROVE  UserPendingFrame
    <3> DEFINE q == [Idle EXCEPT !.op = "adminDelete",
                                 !.pc = IF IsActive(k) THEN "findNode" ELSE "closing",
                                 !.user = rows[k].user,
                                 !.server = rows[k].server, !.peer = k]
    <3>1. req' = [req EXCEPT ![r] = q]
      BY <2>4 DEF BeginAdminDelete
    <3>2. q.pc \notin PendingPcs
      BY DEF Idle, PendingPcs
    <3> HIDE DEF q
    <3> QED  BY <1>2, <3>1, <3>2
  <2> QED  BY <1>7, <2>1, <2>2, <2>3, <2>4 DEF Begin
<1>8. ASSUME NEW r \in Clients, RequestStep(r)  PROVE UserPendingFrame
  <2>1. CASE GetActive(r) \/ FindServer(r) \/ LoadOwned(r)
    BY <1>3, <1>4, <2>1 DEF GetActive, FindServer, LoadOwned, Check, PendingPcs
  <2>2. CASE FindPeers(r)
    <3> DEFINE a == nextFreeIp(Subnet, ServerAddress, UsedIps(req[r].server))
    <3>1. PICK k \in Keys :
            req' = [req EXCEPT ![r].pc = "adding", ![r].key = k, ![r].ip = a]
      BY <2>2 DEF FindPeers
    <3> HIDE DEF a
    <3> DEFINE q == [req[r] EXCEPT !.pc = "adding", !.key = k, !.ip = a]
    <3>2. req' = [req EXCEPT ![r] = q] /\ q.user = req[r].user
      BY <1>0, <3>1 DEF RequestRecords
    <3>3. req[r].pc \in PendingPcs
      BY <2>2 DEF FindPeers, PendingPcs
    <3> HIDE DEF q
    <3> QED  BY <1>2, <3>2, <3>3
  <2>3. CASE FindPeersThrows(r) \/ AddPeerFails(r) \/ MarkRevoked(r) \/ DeleteRow(r)
    BY <1>4, <2>3 DEF FindPeersThrows, AddPeerFails, MarkRevoked, DeleteRow
  <2>4. CASE AddPeerOk(r)
    BY <1>3, <2>4 DEF AddPeerOk, PendingPcs
  <2>5. CASE Insert(r)
    BY <1>3, <1>4, <2>5 DEF Insert, PendingPcs
  <2>6. CASE FindNode(r) \/ RemovePeerReturns(r) \/ Timeout(r)
    BY <1>3, <1>4, <2>6 DEF FindNode, RemovePeerReturns, Timeout, PendingPcs
  <2> QED
    BY <1>8, <2>1, <2>2, <2>3, <2>4, <2>5, <2>6 DEF RequestStep
<1> QED  BY <1>5, <1>6, <1>7, <1>8 DEF Next

LEMMA CardinalityGrows ==
  ASSUME NEW S, NEW x, IsFiniteSet(S)
  PROVE  /\ Cardinality(S) \in Nat
         /\ Cardinality(S \ {x}) \in Nat
         /\ Cardinality(S) <= Cardinality(S \ {x}) + 1
         /\ Cardinality(S \cup {x}) <= Cardinality(S) + 1
         /\ x \in S => Cardinality(S \ {x}) = Cardinality(S) - 1
<1>1. Cardinality(S) \in Nat
  BY FS_CardinalityType
<1>2. IsFiniteSet(S \ {x})
  BY FS_Subset
<1>3. Cardinality(S \ {x}) \in Nat
  BY <1>2, FS_CardinalityType
<1>4. CASE x \in S
  <2>1. Cardinality(S \ {x}) = Cardinality(S) - 1
    BY <1>4, FS_RemoveElement
  <2>2. Cardinality(S \cup {x}) = Cardinality(S)
    <3>1. S \cup {x} = S
      BY <1>4
    <3> QED  BY <3>1, Zenon
  <2> QED  BY <1>1, <1>3, <2>1, <2>2
<1>5. CASE x \notin S
  <2>1. Cardinality(S \cup {x}) = Cardinality(S) + 1
    BY <1>5, FS_AddElement
  <2>2. Cardinality(S \ {x}) = Cardinality(S)
    <3>1. S \ {x} = S
      BY <1>5
    <3> QED  BY <3>1, Zenon
  <2> QED  BY <1>1, <1>3, <1>5, <2>1, <2>2
<1> QED  BY <1>4, <1>5

LEMMA SetsFinite ==
  /\ \A u : IsFiniteSet(ActiveOf(u)) /\ IsFiniteSet(PendingOf(u))
  /\ \A s : IsFiniteSet(ActiveOn(s)) /\ IsFiniteSet(PendingOn(s))
<1>1. IsFiniteSet(Keys) /\ IsFiniteSet(Clients)
  BY PeersAssumption
<1>2. \A u : ActiveOf(u) \subseteq Keys /\ PendingOf(u) \subseteq Clients
  BY DEF ActiveOf, PendingOf
<1>3. \A s : ActiveOn(s) \subseteq Keys /\ PendingOn(s) \subseteq Clients
  BY DEF ActiveOn, PendingOn
<1> QED  BY <1>1, <1>2, <1>3, FS_Subset

(* The arithmetic of a check-then-act limit: A the ACTIVE peers, P the     *)
(* requests that have passed the check.                                    *)
Bounded(A, P, limit) == Cardinality(A) + Cardinality(P) <= limit + Cardinality(Clients)

LEMMA BoundShrinks ==
  ASSUME NEW A, NEW P, NEW B, NEW Q, NEW limit \in Nat,
         IsFiniteSet(A), IsFiniteSet(P), B \subseteq A, Q \subseteq P,
         Bounded(A, P, limit)
  PROVE  Bounded(B, Q, limit)
<1>1. IsFiniteSet(B) /\ IsFiniteSet(Q)
  BY FS_Subset
<1>2. Cardinality(B) <= Cardinality(A) /\ Cardinality(Q) <= Cardinality(P)
  BY FS_Subset
<1>3. /\ Cardinality(A) \in Nat /\ Cardinality(P) \in Nat
      /\ Cardinality(B) \in Nat /\ Cardinality(Q) \in Nat
      /\ Cardinality(Clients) \in Nat
  BY <1>1, FS_CardinalityType, PeersAssumption
<1> QED  BY <1>2, <1>3 DEF Bounded

(* The check leaves room for one peer, besides the one being replaced.     *)
LEMMA BoundChecked ==
  ASSUME NEW A, NEW Q, NEW x, NEW limit \in Nat,
         IsFiniteSet(A), Q \subseteq Clients,
         Cardinality(A \ {x}) < limit
  PROVE  Bounded(A, Q, limit)
<1>1. IsFiniteSet(Clients)
  BY PeersAssumption
<1>2. Cardinality(Q) <= Cardinality(Clients) /\ IsFiniteSet(Q)
  BY <1>1, FS_Subset
<1>3. Cardinality(Q) \in Nat /\ Cardinality(Clients) \in Nat
  BY <1>1, <1>2, FS_CardinalityType
<1>4. /\ Cardinality(A) \in Nat /\ Cardinality(A \ {x}) \in Nat
      /\ Cardinality(A) <= Cardinality(A \ {x}) + 1
  BY CardinalityGrows
<1> QED  BY <1>2, <1>3, <1>4 DEF Bounded

(* The insert turns a pending request into a peer.                         *)
LEMMA BoundStored ==
  ASSUME NEW A, NEW P, NEW B, NEW Q, NEW k, NEW r, NEW limit \in Nat,
         IsFiniteSet(A), IsFiniteSet(P), r \in P,
         B \subseteq A \cup {k}, Q \subseteq P \ {r},
         Bounded(A, P, limit)
  PROVE  Bounded(B, Q, limit)
<1>1. /\ Cardinality(A) \in Nat /\ Cardinality(A \cup {k}) <= Cardinality(A) + 1
      /\ IsFiniteSet(A \cup {k})
  BY CardinalityGrows, FS_AddElement
<1>2. /\ Cardinality(P) \in Nat /\ Cardinality(P \ {r}) = Cardinality(P) - 1
      /\ IsFiniteSet(P \ {r})
  BY CardinalityGrows, FS_Subset
<1>3. Cardinality(A \cup {k}) \in Nat /\ Cardinality(Clients) \in Nat
  BY <1>1, FS_CardinalityType, PeersAssumption
<1>4. Bounded(A \cup {k}, P \ {r}, limit)
  BY <1>1, <1>2, <1>3 DEF Bounded
<1> QED  BY <1>1, <1>2, <1>4, BoundShrinks

-----------------------------------------------------------------------------
ExcessInv == SafeInv /\ DeviceLimitExcess /\ CapacityExcess

LEMMA InitExcess == Init => DeviceLimitExcess /\ CapacityExcess
<1> SUFFICES ASSUME Init PROVE DeviceLimitExcess /\ CapacityExcess
  OBVIOUS
<1>1. DeviceLimit \in Nat /\ MaxPeers \in Nat /\ Cardinality(Clients) \in Nat
  BY FS_CardinalityType, PeersAssumption
<1>2. ASSUME NEW u \in Users
      PROVE  ActiveOf(u) = {} /\ PendingOf(u) = {}
  BY DEF Init, ActiveOf, PendingOf, IsActive, NoRow, Idle, Requests
<1>3. ASSUME NEW s \in Servers
      PROVE  ActiveOn(s) = {} /\ PendingOn(s) = {}
  BY DEF Init, ActiveOn, PendingOn, IsActive, NoRow, Idle, Requests
<1>4. Cardinality({}) = 0
  BY FS_EmptySet
<1>5. ASSUME NEW u \in Users
      PROVE  Cardinality(ActiveOf(u)) = 0 /\ Cardinality(PendingOf(u)) = 0
  BY <1>2, <1>4, Zenon
<1>6. ASSUME NEW s \in Servers
      PROVE  Cardinality(ActiveOn(s)) = 0 /\ Cardinality(PendingOn(s)) = 0
  BY <1>3, <1>4, Zenon
<1>7. DeviceLimitExcess
  BY <1>1, <1>5 DEF DeviceLimitExcess, Requests
<1>8. CapacityExcess
  BY <1>1, <1>6 DEF CapacityExcess, Requests
<1> QED  BY <1>7, <1>8

(* Rows that only close give back room.                                    *)
LEMMA ActiveShrinks ==
  RowsOnlyClose => /\ \A u \in Users : ActiveOf(u)' \subseteq ActiveOf(u)
                   /\ \A s \in Servers : ActiveOn(s)' \subseteq ActiveOn(s)
  BY DEF RowsOnlyClose, ActiveOf, ActiveOn, IsActive

LEMMA StoreEffect ==
  ASSUME SafeInv, NEW r \in Clients, StoreKind(r)
  PROVE  /\ \A u \in Users : ActiveOf(u)' \subseteq
              IF u = req[r].user THEN ActiveOf(u) \cup {req[r].key} ELSE ActiveOf(u)
         /\ \A s \in Servers : ActiveOn(s)' \subseteq
              IF s = req[r].server THEN ActiveOn(s) \cup {req[r].key} ELSE ActiveOn(s)
         /\ \A q \in Clients : q # r => req'[q] = req[q]
         /\ req'[r].pc \notin PendingPcs
         /\ req[r].pc = "inserting"
<1> DEFINE new == [status |-> "ACTIVE", user |-> req[r].user,
                   server |-> req[r].server, ip |-> req[r].ip]
<1>0. req \in [Clients -> RequestRecords] /\ rows \in [Keys -> Rows]
  BY DEF SafeInv, TypeInv, TypeOK, Requests
<1>1. rows' = [rows EXCEPT ![req[r].key] = new]
  BY DEF StoreKind, Insert, NewRow
<1>2. new.user = req[r].user /\ new.server = req[r].server
  OBVIOUS
<1>3. \/ req' = [req EXCEPT ![r].pc = "loadOwned"]
      \/ req' = [req EXCEPT ![r] = Idle]
  BY DEF StoreKind, Insert, Goto, Finish
<1>4. req[r].pc = "inserting"
  BY DEF StoreKind, At
<1>5. req'[r].pc \notin PendingPcs
  <2>1. CASE req' = [req EXCEPT ![r].pc = "loadOwned"]
    BY <1>0, <2>1 DEF RequestRecords, PendingPcs
  <2>2. CASE req' = [req EXCEPT ![r] = Idle]
    BY <1>0, <2>2 DEF Idle, PendingPcs
  <2> QED  BY <1>3, <2>1, <2>2
<1>6. \A q \in Clients : q # r => req'[q] = req[q]
  BY <1>0, <1>3
<1> HIDE DEF new
<1>7. \A k \in Keys : k # req[r].key => rows'[k] = rows[k]
  BY <1>0, <1>1
<1>8. \A k \in Keys : rows'[k] = IF k = req[r].key THEN new ELSE rows[k]
  BY <1>0, <1>1
<1>9. \A u \in Users : ActiveOf(u)' \subseteq
        IF u = req[r].user THEN ActiveOf(u) \cup {req[r].key} ELSE ActiveOf(u)
  BY <1>2, <1>8 DEF ActiveOf, IsActive
<1>10. \A s \in Servers : ActiveOn(s)' \subseteq
        IF s = req[r].server THEN ActiveOn(s) \cup {req[r].key} ELSE ActiveOn(s)
  BY <1>2, <1>8 DEF ActiveOn, IsActive
<1> QED  BY <1>4, <1>5, <1>6, <1>9, <1>10

LEMMA DeviceStep ==
  ASSUME SafeInv, TypeInv', DeviceLimitExcess, [Next]_vars, NEW u \in Users
  PROVE  Bounded(ActiveOf(u)', PendingOf(u)', DeviceLimit)
<1>0. /\ DeviceLimit \in Nat
      /\ IsFiniteSet(ActiveOf(u)) /\ IsFiniteSet(PendingOf(u))
      /\ Bounded(ActiveOf(u), PendingOf(u), DeviceLimit)
  BY SetsFinite, PeersAssumption DEF DeviceLimitExcess, Bounded, Requests
<1>1. CASE \E r \in Clients : CountPeers(r)
  <2>1. PICK r \in Clients : CountPeers(r)
    BY <1>1
  <2>2. rows' = rows /\ req \in [Clients -> RequestRecords]
    BY <2>1 DEF CountPeers, Check, SafeInv, TypeInv, TypeOK, Requests
  <2>3. ActiveOf(u)' = ActiveOf(u)
    BY <2>2 DEF ActiveOf, IsActive
  <2>4. CASE /\ Cardinality(ActiveOf(req[r].user) \ {req[r].peer}) < DeviceLimit
             /\ u = req[r].user
    <3>1. PendingOf(u)' \subseteq Clients
      BY DEF PendingOf, Requests
    <3> QED  BY <1>0, <2>3, <2>4, <3>1, BoundChecked
  <2>5. CASE ~ (/\ Cardinality(ActiveOf(req[r].user) \ {req[r].peer}) < DeviceLimit
                /\ u = req[r].user)
    <3>1. PendingOf(u)' \subseteq PendingOf(u)
      BY <2>1, <2>2, <2>5
         DEF CountPeers, Check, Goto, Finish, Idle, PendingOf, Requests, RequestRecords
    <3> QED  BY <1>0, <2>3, <3>1, BoundShrinks
  <2> QED  BY <2>4, <2>5
<1>2. CASE UserPendingFrame /\ \E r \in Clients : StoreKind(r)
  <2>1. PICK r \in Clients : StoreKind(r)
    BY <1>2
  <2>2. PendingOf(u)' \subseteq PendingOf(u) \ {r}
    BY <1>2, <2>1, StoreEffect DEF UserPendingFrame, PendingOf, PendingPcs, Requests
  <2>3. CASE u = req[r].user
    <3>1. r \in PendingOf(u)
      BY <2>1, <2>3, StoreEffect DEF PendingOf, Requests
    <3>2. ActiveOf(u)' \subseteq ActiveOf(u) \cup {req[r].key}
      BY <2>1, <2>3, StoreEffect
    <3> QED  BY <1>0, <2>2, <3>1, <3>2, BoundStored, ZenonT(30)
  <2>4. CASE u # req[r].user
    <3>1. ActiveOf(u)' \subseteq ActiveOf(u)
      BY <2>1, <2>4, StoreEffect
    <3> QED  BY <1>0, <2>2, <3>1, BoundShrinks
  <2> QED  BY <2>3, <2>4
<1>3. CASE /\ UserPendingFrame
           /\ NeitherKind \/ \E r \in Clients : FindPeers(r)
  <2>1. PendingOf(u)' \subseteq PendingOf(u)
    BY <1>3 DEF UserPendingFrame, PendingOf, PendingPcs, Requests
  <2>2. ActiveOf(u)' \subseteq ActiveOf(u)
    BY <1>3, ActiveShrinks DEF NeitherKind, FindPeers, ActiveOf, IsActive
  <2> QED  BY <1>0, <2>1, <2>2, BoundShrinks
<1> QED  BY <1>1, <1>2, <1>3, StepKinds, UserPendingSteps DEF SafeInv

LEMMA CapacityStep ==
  ASSUME SafeInv, TypeInv', CapacityExcess, [Next]_vars, NEW s \in Servers
  PROVE  Bounded(ActiveOn(s)', PendingOn(s)', MaxPeers)
<1>0. /\ MaxPeers \in Nat
      /\ IsFiniteSet(ActiveOn(s)) /\ IsFiniteSet(PendingOn(s))
      /\ Bounded(ActiveOn(s), PendingOn(s), MaxPeers)
  BY SetsFinite, PeersAssumption DEF CapacityExcess, Bounded, Requests
<1>1. CASE \E r \in Clients : FindPeers(r)
  <2>1. PICK r \in Clients : FindPeers(r)
    BY <1>1
  <2>2. rows' = rows /\ req \in [Clients -> RequestRecords]
    BY <2>1 DEF FindPeers, SafeInv, TypeInv, TypeOK, Requests
  <2>3. ActiveOn(s)' = ActiveOn(s)
    BY <2>2 DEF ActiveOn, IsActive
  <2>4. CASE s = req[r].server
    <3>1. PendingOn(s)' \subseteq Clients
      BY DEF PendingOn, Requests
    <3>2. Cardinality(ActiveOn(s) \ {req[r].peer}) < MaxPeers
      BY <2>1, <2>4 DEF FindPeers, CanAllocate, HasCapacity
    <3> QED  BY <1>0, <2>3, <3>1, <3>2, BoundChecked
  <2>5. CASE s # req[r].server
    <3>1. \A q \in Clients : q # r => req'[q] = req[q]
      BY <2>1, <2>2 DEF FindPeers
    <3>2. req'[r].server = req[r].server
      BY <2>1, <2>2 DEF FindPeers, RequestRecords
    <3>3. PendingOn(s)' \subseteq PendingOn(s)
      BY <2>5, <3>1, <3>2 DEF PendingOn, Requests
    <3> QED  BY <1>0, <2>3, <3>3, BoundShrinks
  <2> QED  BY <2>4, <2>5
<1>2. CASE \E r \in Clients : StoreKind(r)
  <2>1. PICK r \in Clients : StoreKind(r)
    BY <1>2
  <2>2. PendingOn(s)' \subseteq PendingOn(s) \ {r}
    BY <2>1, StoreEffect DEF PendingOn, PendingPcs, Requests
  <2>3. CASE s = req[r].server
    <3>1. r \in PendingOn(s)
      BY <2>1, <2>3, StoreEffect DEF PendingOn, Requests
    <3>2. ActiveOn(s)' \subseteq ActiveOn(s) \cup {req[r].key}
      BY <2>1, <2>3, StoreEffect
    <3> QED  BY <1>0, <2>2, <3>1, <3>2, BoundStored, ZenonT(30)
  <2>4. CASE s # req[r].server
    <3>1. ActiveOn(s)' \subseteq ActiveOn(s)
      BY <2>1, <2>4, StoreEffect
    <3> QED  BY <1>0, <2>2, <3>1, BoundShrinks
  <2> QED  BY <2>3, <2>4
<1>3. CASE NeitherKind
  <2>1. PendingOn(s)' \subseteq PendingOn(s)
    BY <1>3 DEF NeitherKind, RequestsFrame, HasNewKey, PendingOn, Requests
  <2>2. ActiveOn(s)' \subseteq ActiveOn(s)
    BY <1>3, ActiveShrinks DEF NeitherKind
  <2> QED  BY <1>0, <2>1, <2>2, BoundShrinks
<1> QED  BY <1>1, <1>2, <1>3, StepKinds DEF SafeInv

LEMMA ExcessStep == ExcessInv /\ [Next]_vars => ExcessInv'
<1> SUFFICES ASSUME ExcessInv, [Next]_vars PROVE ExcessInv'
  OBVIOUS
<1>1. SafeInv' /\ TypeInv'
  BY SafeStep, TypeStep DEF ExcessInv, SafeInv
<1>2. DeviceLimitExcess'
  BY <1>1, DeviceStep DEF ExcessInv, DeviceLimitExcess, Bounded, Requests
<1>3. CapacityExcess'
  BY <1>1, CapacityStep DEF ExcessInv, CapacityExcess, Bounded, Requests
<1> QED  BY <1>1, <1>2, <1>3 DEF ExcessInv

(* However many requests race, a user's ACTIVE peers, with the creates that*)
(* are past the device check, exceed the limit by one per request at most. *)
THEOREM DeviceExcessBounded == Spec => []DeviceLimitExcess
<1>1. Init => ExcessInv
  BY InitSafeInv, InitExcess DEF ExcessInv
<1>2. ExcessInv => DeviceLimitExcess
  BY DEF ExcessInv
<1> QED  BY ExcessStep, <1>1, <1>2, PTL DEF Spec

(* The same of a server's capacity.                                        *)
THEOREM CapacityExcessBounded == Spec => []CapacityExcess
<1>1. Init => ExcessInv
  BY InitSafeInv, InitExcess DEF ExcessInv
<1>2. ExcessInv => CapacityExcess
  BY DEF ExcessInv
<1> QED  BY ExcessStep, <1>1, <1>2, PTL DEF Spec

-----------------------------------------------------------------------------
(* One request at a time: the address chosen before the agent call stays   *)
(* free until the row is inserted, since only a request takes one.         *)
OneRequest == \A q, r \in Clients : q = r

AddressReserved ==
  \A r \in Clients : HasNewKey(r) =>
    \A k \in Keys : Exists(k) /\ rows[k].server = req[r].server =>
                    rows[k].ip # req[r].ip

LEMMA InitReserved == Init => AddressReserved
  BY DEF Init, AddressReserved, HasNewKey, Idle

LEMMA ReservedStep ==
  ASSUME OneRequest, SafeInv, AddressReserved, [Next]_vars
  PROVE  AddressReserved'
<1>1. TypeInv /\ TypeInv' /\ AddressHeldIffActive
  BY TypeStep DEF SafeInv
<1>2. ASSUME NEW r \in Clients, HasNewKey(r)  PROVE req[r].ip \in Ips /\ req[r].ip # Null
  BY <1>1, <1>2, RequestTypes, NodeAgentAssumption DEF RequestTyped, HasNewKey
<1>3. CASE NeitherKind
  <2>1. \A k \in Keys : rows'[k] = rows[k] \/ rows'[k].ip = Null
    BY <1>3 DEF NeitherKind, RowsOnlyClose
  <2> QED
    BY <1>2, <1>3, <2>1 DEF NeitherKind, RequestsFrame, AddressReserved, Exists
<1>4. ASSUME NEW r \in Clients, FindPeers(r)  PROVE AddressReserved'
  <2> DEFINE s == req[r].server
             a == nextFreeIp(Subnet, ServerAddress, UsedIps(s))
  <2>1. PICK k \in Keys :
          req' = [req EXCEPT ![r].pc = "adding", ![r].key = k, ![r].ip = a]
    BY <1>4 DEF FindPeers
  <2>2. UNCHANGED rows /\ a # Exhausted
    BY <1>4 DEF FindPeers, CanAllocate
  <2>3. a \in Ips /\ a \in FreeAddresses(Subnet, ServerAddress, UsedIps(s))
    BY <2>2, AllocatedIsHost, NextFreeIpCorrect, PeersAssumption
  <2> HIDE DEF a
  <2>4. req'[r].ip = a /\ req'[r].server = s
    BY <1>1, <2>1, RequestTypes DEF RequestRecords
  <2>5. ASSUME NEW j \in Keys, Exists(j), rows[j].server = s  PROVE rows[j].ip # a
    <3>1. CASE IsActive(j)
      BY <2>3, <2>5, <3>1, NodeAgentAssumption DEF FreeAddresses, UsedIps, ActiveOn
    <3>2. CASE ~IsActive(j)
      BY <1>1, <2>3, <3>2, NodeAgentAssumption DEF AddressHeldIffActive
    <3> QED  BY <3>1, <3>2
  <2> QED  BY <2>2, <2>4, <2>5 DEF OneRequest, AddressReserved, Exists
<1>5. ASSUME NEW r \in Clients, StoreKind(r)  PROVE AddressReserved'
  <2>1. ~HasNewKey(r)'
    BY <1>1, <1>5, RequestTypes
       DEF StoreKind, Insert, Goto, Finish, Idle, HasNewKey, RequestRecords
  <2> QED  BY <2>1 DEF OneRequest, AddressReserved
<1> QED  BY <1>1, <1>3, <1>4, <1>5, StepKinds

(* With one request at a time no create is turned away by the unique index *)
(* after its agent has served it, whatever the agents and admins do.       *)
THEOREM SerialInsertsAccepted ==
  ASSUME OneRequest  PROVE Spec => []InsertAccepted
<1>1. Init => SafeInv /\ AddressReserved
  BY InitSafeInv, InitReserved
<1>2. SafeInv /\ AddressReserved /\ [Next]_vars => SafeInv' /\ AddressReserved'
  BY SafeStep, ReservedStep
<1>3. AddressReserved => InsertAccepted
  BY DEF AddressReserved, InsertAccepted, Insertable, HasNewKey, At
<1> QED  BY <1>1, <1>2, <1>3, PTL DEF Spec

-----------------------------------------------------------------------------
(* While no caller gives up on a call, every call is the one its request   *)
(* is waiting for.                                                         *)
Patient == Events \cap {"timeout", "panelCrash"} = {}

CallMatches(c) ==
  /\ c.client \in Clients
  /\ c.server = req[c.client].server
  /\ c.op = "add" => /\ At(c.client, "adding")
                     /\ c.key = req[c.client].key
                     /\ c.ip = req[c.client].ip
  /\ c.op = "remove" => /\ At(c.client, "removing")
                        /\ c.key = req[c.client].peer

CallsMatch == \A c \in calls : CallMatches(c)

(* A step of an agent moves one call along, or drops it.                   *)
SameCall(c, d) ==
  /\ d.client = c.client /\ d.server = c.server /\ d.op = c.op
  /\ d.key = c.key /\ d.ip = c.ip

LEMMA CallSteps ==
  ASSUME TypeInv, NEW c \in calls, CallStep(c)
  PROVE  /\ c \in CallRecords
         /\ \A d \in calls' \ calls :
              /\ SameCall(c, d)
              /\ d.pc # "sent"
              /\ c.pc \in {"sent", "set", "saving"}
              /\ d.pc = "error" => "wgSetFails" \in Faults
              /\ c.pc # "sent" \/ WgSet(c) \/ d.pc = "error"
         /\ \A e \in calls : e \in calls' \/ e = c
         /\ \/ \E d \in calls' : SameCall(c, d)
            \/ "lostCall" \in Faults
            \/ c.client = Nobody
<1>1. c \in CallRecords
  BY DEF TypeInv, TypeOK, AgentTypeOK
<1>2. ASSUME NEW pc, NEW table, Become(c, [c EXCEPT !.pc = pc, !.snapshot = table])
      PROVE  /\ \A d \in calls' \ calls : SameCall(c, d) /\ d.pc = pc
             /\ \A e \in calls : e \in calls' \/ e = c
             /\ \E d \in calls' : SameCall(c, d)
  <2> DEFINE d == [c EXCEPT !.pc = pc, !.snapshot = table]
  <2>1. SameCall(c, d) /\ d.pc = pc
    BY <1>1 DEF CallRecords, SameCall
  <2>2. calls' = (calls \ {c}) \cup {d}
    BY <1>2 DEF Become
  <2> HIDE DEF d
  <2> QED  BY <2>1, <2>2
<1>3. ASSUME NEW pc, Become(c, [c EXCEPT !.pc = pc])
      PROVE  /\ \A d \in calls' \ calls : SameCall(c, d) /\ d.pc = pc
             /\ \A e \in calls : e \in calls' \/ e = c
             /\ \E d \in calls' : SameCall(c, d)
  <2>1. [c EXCEPT !.pc = pc] = [c EXCEPT !.pc = pc, !.snapshot = c.snapshot]
    BY <1>1 DEF CallRecords
  <2> QED  BY <1>2, <1>3, <2>1
<1>4. CASE WgSet(c)
  BY <1>1, <1>3, <1>4 DEF WgSet
<1>5. CASE WgSetFails(c)
  BY <1>1, <1>3, <1>5 DEF WgSetFails
<1>6. CASE SaveDump(c)
  BY <1>1, <1>2, <1>6, ZenonT(30) DEF SaveDump
<1>7. CASE SaveRename(c)
  BY <1>1, <1>2, <1>7 DEF SaveRename
<1>8. CASE SaveFails(c)
  BY <1>1, <1>3, <1>8 DEF SaveFails
<1>9. CASE LoseCall(c) \/ AnswerNobody(c)
  BY <1>1, <1>9 DEF LoseCall, AnswerNobody
<1> QED  BY <1>4, <1>5, <1>6, <1>7, <1>8, <1>9 DEF CallStep

(* Of the requests' steps only FindPeers and FindNode send a call; and a   *)
(* request leaves "adding" and "removing" only with its calls received.    *)
CallsFrame(r) ==
  /\ \A q \in Clients \ {r} : req'[q] = req[q]
  /\ req'[r].pc \notin {"adding", "removing"}
  /\ \/ /\ calls' \subseteq calls
        /\ \A c \in calls' : c.client # r
        /\ \A c \in calls : c.client # r => c \in calls'
     \/ UNCHANGED calls /\ ~At(r, "adding") /\ ~At(r, "removing")

SendsAdd(r) ==
  \E k \in Keys \ issued, a \in Ips :
    /\ At(r, "findPeers")
    /\ req' = [req EXCEPT ![r] = [req[r] EXCEPT !.pc = "adding", !.key = k, !.ip = a]]
    /\ addPeer(r, req[r].server, k, a)

SendsRemove(r) ==
  /\ At(r, "findNode")
  /\ req[r].server \in Servers /\ req[r].peer \in Keys
  /\ Goto(r, "removing")
  /\ removePeer(r, req[r].server, req[r].peer)

LEMMA PanelSteps ==
  ASSUME TypeInv, Patient, NEW r \in Clients, Begin(r) \/ RequestStep(r)
  PROVE  CallsFrame(r) \/ SendsAdd(r) \/ SendsRemove(r)
<1> USE DEF At
<1>0. /\ req \in [Clients -> RequestRecords] /\ req[r] \in RequestRecords
      /\ RequestTyped(req[r])
  BY RequestTypes
<1>1. (\E pc : Goto(r, pc)) \/ Finish(r) => \A q \in Clients \ {r} : req'[q] = req[q]
  BY <1>0 DEF Goto, Finish
<1>2. CASE Begin(r)
  <2>1. req'[r].pc \in {"countPeers", "getActive", "findNode", "closing"}
    BY <1>0, <1>2, ZenonT(30) DEF Begin, BeginCreate, BeginRecreate, BeginRevoke, BeginAdminDelete, Idle
  <2>2. /\ \A q \in Clients \ {r} : req'[q] = req[q]
        /\ UNCHANGED calls /\ req[r].pc = "idle"
    BY <1>0, <1>2
       DEF Begin, BeginCreate, BeginRecreate, BeginRevoke, BeginAdminDelete, agentVars
  <2> QED  BY <2>1, <2>2 DEF CallsFrame
<1>9. /\ \A pc : Goto(r, pc) => req'[r].pc = pc
      /\ Finish(r) => req'[r].pc = "idle"
  BY <1>0 DEF Goto, Finish, Idle, RequestRecords
<1>3. CASE GetActive(r) \/ CountPeers(r) \/ FindServer(r) \/ LoadOwned(r)
  BY <1>1, <1>3, <1>9
     DEF GetActive, CountPeers, FindServer, LoadOwned, Check, agentVars, CallsFrame
<1>4. CASE FindPeersThrows(r) \/ Insert(r) \/ MarkRevoked(r) \/ DeleteRow(r)
  BY <1>1, <1>4, <1>9
     DEF FindPeersThrows, Insert, MarkRevoked, DeleteRow, agentVars, CallsFrame
<1>5. CASE AddPeerOk(r) \/ AddPeerFails(r) \/ RemovePeerReturns(r)
  BY <1>1, <1>5, <1>9
     DEF AddPeerOk, AddPeerFails, RemovePeerReturns, Receive, CallsOf, CallsFrame
<1>6. CASE FindPeers(r)
  <2> DEFINE s == req[r].server
             a == nextFreeIp(Subnet, ServerAddress, UsedIps(s))
  <2>1. a \in Ips /\ At(r, "findPeers")
    BY <1>6, AllocatedIsHost DEF FindPeers, CanAllocate
  <2>2. PICK k \in Keys \ issued :
          /\ addPeer(r, s, k, a)
          /\ req' = [req EXCEPT ![r].pc = "adding", ![r].key = k, ![r].ip = a]
    BY <1>6 DEF FindPeers
  <2> HIDE DEF a
  <2>3. req' = [req EXCEPT ![r] = [req[r] EXCEPT !.pc = "adding", !.key = k, !.ip = a]]
    BY <1>0, <2>2
  <2> QED  BY <2>1, <2>2, <2>3 DEF SendsAdd
<1>7. CASE FindNode(r)
  <2>1. CASE servers[req[r].server] = "GONE"
    BY <1>1, <1>7, <1>9, <2>1 DEF FindNode, CallsFrame
  <2>2. CASE servers[req[r].server] # "GONE"
    BY <1>0, <1>7, <2>2 DEF FindNode, SendsRemove, RequestTyped, RemovePcs
  <2> QED  BY <2>1, <2>2
<1>8. ~Timeout(r)
  BY DEF Timeout, Patient
<1> QED
  BY <1>2, <1>3, <1>4, <1>5, <1>6, <1>7, <1>8 DEF RequestStep

LEMMA InitCallsMatch == Init => CallsMatch
  BY DEF Init, AgentInit, CallsMatch

LEMMA EnvLeavesCalls == Patient /\ EnvStep => UNCHANGED <<agentVars, req>>
  BY DEF Patient, EnvStep, PanelCrash, SubscriptionsChange, HealthChanges, ServerDeleted,
         panelVars, agentVars

LEMMA CallsMatchStep ==
  ASSUME TypeInv, Patient, CallsMatch, [Next]_vars
  PROVE  CallsMatch'
<1>0. req \in [Clients -> RequestRecords] /\ \A c \in calls : c \in CallRecords
  BY DEF TypeInv, TypeOK, AgentTypeOK
<1>1. CASE UNCHANGED <<calls, req>>
  BY <1>1 DEF CallsMatch, CallMatches, At
<1>2. CASE AgentNext
  <2>1. UNCHANGED req
    BY <1>2 DEF AgentNext, panelVars
  <2>2. ASSUME NEW c \in calls, CallStep(c)  PROVE CallsMatch'
    <3>1. \A d \in calls' : d \in calls \/ SameCall(c, d)
      BY <2>2, CallSteps
    <3> QED  BY <2>1, <3>1 DEF CallsMatch, CallMatches, At, SameCall
  <2>3. ASSUME NEW s \in Servers, wgRestart(s) \/ Reinstall(s)  PROVE CallsMatch'
    BY <1>1, <2>1, <2>3 DEF wgRestart, Reinstall
  <2> QED  BY <1>2, <2>2, <2>3 DEF AgentNext, AgentStep
<1>3. CASE EnvStep
  BY <1>1, <1>3, EnvLeavesCalls DEF agentVars
<1>4. ASSUME NEW r \in Clients, Begin(r) \/ RequestStep(r)  PROVE CallsMatch'
  <2>1. CASE CallsFrame(r)
    <3>1. \A c \in calls' : c \in calls /\ c.client # r
      BY <1>0, <2>1 DEF CallsFrame, CallsMatch, CallMatches, CallRecords
    <3> QED  BY <2>1, <3>1 DEF CallsFrame, CallsMatch, CallMatches, At
  <2>2. CASE SendsAdd(r)
    <3>1. PICK k \in Keys, a \in Ips :
            /\ At(r, "findPeers")
            /\ req' = [req EXCEPT ![r] = [req[r] EXCEPT !.pc = "adding", !.key = k,
                                                        !.ip = a]]
            /\ addPeer(r, req[r].server, k, a)
      BY <2>2 DEF SendsAdd
    <3>2. /\ req'[r].pc = "adding" /\ req'[r].key = k /\ req'[r].ip = a
          /\ req'[r].server = req[r].server
          /\ \A q \in Clients \ {r} : req'[q] = req[q]
      BY <1>0, <3>1 DEF RequestRecords
    <3>3. \A c \in calls : c.client # r
      BY <1>0, <3>1 DEF CallsMatch, CallMatches, At, CallRecords
    <3>4. \A c \in calls' : c \in calls \/ c = Call(r, req[r].server, "add", k, a)
      BY <3>1 DEF addPeer
    <3>5. CallMatches(Call(r, req[r].server, "add", k, a))'
      BY <3>2 DEF CallMatches, Call, At
    <3>6. \A c \in calls : CallMatches(c)'
      BY <3>2, <3>3 DEF CallsMatch, CallMatches, At
    <3> QED  BY <3>1, <3>2, <3>4, <3>5, <3>6 DEF CallsMatch, CallMatches, Call, At
  <2>3. CASE SendsRemove(r)
    <3>1. /\ req'[r].pc = "removing" /\ req'[r].peer = req[r].peer
          /\ req'[r].server = req[r].server
          /\ \A q \in Clients \ {r} : req'[q] = req[q]
      BY <1>0, <2>3 DEF SendsRemove, Goto, RequestRecords
    <3>2. \A c \in calls : c.client # r
      BY <1>0, <2>3 DEF SendsRemove, CallsMatch, CallMatches, At, CallRecords
    <3>3. \A c \in calls' :
            c \in calls \/ c = Call(r, req[r].server, "remove", req[r].peer, Null)
      BY <2>3 DEF SendsRemove, removePeer
    <3> QED  BY <3>1, <3>2, <3>3 DEF CallsMatch, CallMatches, Call, At
  <2> QED  BY <1>4, <2>1, <2>2, <2>3, PanelSteps
<1> QED
  BY <1>1, <1>2, <1>3, <1>4 DEF Next, vars, agentVars, panelVars

-----------------------------------------------------------------------------
(* One request at a time, agents that keep their tables: what has been     *)
(* added is routed, from the answer on.                                    *)
TablesKept == Faults \cap {"wgRestart", "reinstall"} = {}

AddedIsRouted ==
  /\ \A c \in calls : c.op = "add" /\ c.pc \in {"set", "saving", "ok"} =>
       routes[c.server][c.ip] = c.key
  /\ \A r \in Clients : At(r, "inserting") =>
       routes[req[r].server][req[r].ip] = req[r].key

RoutedInv == /\ SafeInv /\ AddressReserved /\ CallsMatch
             /\ AddedIsRouted /\ ActivePeersRouted

LEMMA InitRouted == Init => AddedIsRouted /\ ActivePeersRouted
  BY DEF Init, AgentInit, AddedIsRouted, ActivePeersRouted, At, Idle, NoRow, IsActive

(* The part of a step that neither routes nor stores.                      *)
LEMMA RoutedFrame ==
  ASSUME ActivePeersRouted, UNCHANGED routes, RowsOnlyClose,
         \A k \in Keys : IsActive(k)' /\ BeingRemoved(k) => BeingRemoved(k)'
  PROVE  ActivePeersRouted'
  BY DEF ActivePeersRouted, RowsOnlyClose, IsActive

LEMMA RoutedAgentStep ==
  ASSUME OneRequest, TablesKept, RoutedInv, AgentNext
  PROVE  AddedIsRouted' /\ ActivePeersRouted'
<1>0. /\ TypeInv /\ CallsMatch /\ UNCHANGED <<rows, req>>
      /\ rows \in [Keys -> Rows]
      /\ routes \in [Servers -> Tables]
      /\ \A c \in calls : c \in CallRecords
  BY DEF RoutedInv, SafeInv, TypeInv, TypeOK, AgentTypeOK, AgentNext, panelVars
<1>1. PICK c \in calls : CallStep(c)
  BY DEF AgentNext, AgentStep, TablesKept, wgRestart, Reinstall
<1>2. /\ \A k \in Keys : /\ IsActive(k)' <=> IsActive(k)
                         /\ BeingRemoved(k)' <=> BeingRemoved(k)
      /\ \A q \in Clients : At(q, "inserting")' <=> At(q, "inserting")
      /\ RowsOnlyClose
  BY <1>0 DEF IsActive, BeingRemoved, At, RowsOnlyClose
<1>3. \A d \in calls' :
        \/ d \in calls
        \/ /\ SameCall(c, d)
           /\ c.pc \in {"sent", "set", "saving"}
           /\ c.pc # "sent" \/ WgSet(c) \/ d.pc = "error"
  BY <1>0, <1>1, CallSteps
<1>4. c.server \in Servers /\ c.client \in Clients /\ CallMatches(c)
  BY <1>0, <1>1 DEF CallRecords, CallsMatch, CallMatches
<1>5. CASE ~WgSet(c)
  <2>1. UNCHANGED routes
    BY <1>1, <1>5
       DEF CallStep, WgSetFails, SaveDump, SaveRename, SaveFails, LoseCall, AnswerNobody
  <2>2. AddedIsRouted'
    BY <1>0, <1>1, <1>2, <1>3, <1>5, <2>1 DEF RoutedInv, AddedIsRouted, SameCall
  <2> QED  BY <1>2, <2>1, <2>2, RoutedFrame DEF RoutedInv
<1>6. CASE WgSet(c) /\ c.op = "add"
  <2>1. c.ip \in Ips /\ At(c.client, "adding")
        /\ c.key = req[c.client].key /\ c.ip = req[c.client].ip
        /\ c.server = req[c.client].server
    BY <1>0, <1>4, <1>6, RequestTypes DEF CallMatches, At, RequestTyped
  <2>2. /\ routes' = [routes EXCEPT ![c.server] = Assign(routes[c.server], c.ip, c.key)]
        /\ routes[c.server] \in Tables
    BY <1>0, <1>4, <1>6 DEF WgSet
  <2>3. \A s \in Servers, a \in Ips :
          routes'[s][a] = IF s = c.server /\ a = c.ip THEN c.key ELSE routes[s][a]
    BY <1>0, <1>4, <2>1, <2>2 DEF Assign, Tables
  <2>4. \A d \in calls' : d.server = c.server /\ (d.op = "add" => d.ip = c.ip /\ d.key = c.key)
    <3>1. \A d \in calls : d.client = c.client
      BY <1>0, <1>4 DEF CallsMatch, CallMatches, OneRequest
    <3> QED
      BY <1>0, <1>3, <1>4, <1>6, <2>1, <3>1 DEF CallsMatch, CallMatches, SameCall
  <2>5. \A q \in Clients : ~At(q, "inserting")
    BY <1>4, <2>1 DEF OneRequest, At
  <2>6. AddedIsRouted'
    BY <1>2, <1>4, <2>1, <2>3, <2>4, <2>5 DEF AddedIsRouted
  <2>7. ASSUME NEW k \in Keys, IsActive(k), rows[k].server = c.server  PROVE rows[k].ip # c.ip
    BY <1>4, <2>1, <2>7 DEF RoutedInv, AddressReserved, HasNewKey, At, Exists, IsActive
  <2>8. \A k \in Keys : IsActive(k) => rows[k].server \in Servers /\ rows[k].ip \in Ips
    BY <1>0 DEF TypeInv, TypeOK, RowsTyped, IsActive, Rows, RoutedInv, SafeInv,
                AddressHeldIffActive
  <2> QED
    BY <1>0, <1>2, <2>3, <2>6, <2>7, <2>8 DEF RoutedInv, ActivePeersRouted
<1>7. CASE WgSet(c) /\ c.op = "remove"
  <2>1. At(c.client, "removing") /\ c.key = req[c.client].peer
    BY <1>4, <1>7 DEF CallMatches
  <2>2. /\ routes' = [routes EXCEPT ![c.server] = Without(routes[c.server], c.key)]
        /\ routes[c.server] \in Tables
    BY <1>0, <1>4, <1>7 DEF WgSet
  <2>3. \A s \in Servers, a \in Ips :
          routes'[s][a] = routes[s][a] \/ routes[s][a] = c.key
    BY <1>0, <1>4, <2>2 DEF Without, Tables
  <2>4. \A d \in calls' : d.op # "add"
    BY <1>0, <1>3, <1>4, <1>7, <2>1
       DEF CallsMatch, CallMatches, SameCall, OneRequest, At
  <2>5. \A q \in Clients : ~At(q, "inserting")
    BY <1>4, <2>1 DEF OneRequest, At
  <2>6. AddedIsRouted'
    BY <1>2, <2>4, <2>5 DEF AddedIsRouted
  <2>7. \A k \in Keys : k = c.key => BeingRemoved(k)
    BY <1>4, <2>1 DEF BeingRemoved, At
  <2>8. \A k \in Keys : IsActive(k) => rows[k].server \in Servers /\ rows[k].ip \in Ips
    BY <1>0 DEF TypeInv, TypeOK, RowsTyped, IsActive, Rows, RoutedInv, SafeInv,
                AddressHeldIffActive
  <2> QED
    BY <1>0, <1>2, <2>3, <2>6, <2>7, <2>8 DEF RoutedInv, ActivePeersRouted
<1> QED  BY <1>0, <1>1, <1>5, <1>6, <1>7 DEF CallRecords

LEMMA RoutedRequestStep ==
  ASSUME OneRequest, Patient, RoutedInv, NEW r \in Clients, Begin(r) \/ RequestStep(r)
  PROVE  AddedIsRouted' /\ ActivePeersRouted'
<1> USE DEF At
<1>0. /\ TypeInv /\ CallsMatch /\ req \in [Clients -> RequestRecords]
      /\ req[r] \in RequestRecords /\ rows \in [Keys -> Rows]
      /\ \A q \in Clients : q = r
      /\ \A c \in calls : c \in CallRecords
  BY RequestTypes DEF RoutedInv, SafeInv, TypeInv, TypeOK, AgentTypeOK, OneRequest
<1>1. UNCHANGED routes
  BY DEF Begin, BeginCreate, BeginRecreate, BeginRevoke, BeginAdminDelete, RequestStep,
         GetActive, CountPeers, FindServer, FindPeers, FindPeersThrows, AddPeerOk,
         AddPeerFails, Insert, LoadOwned, FindNode, RemovePeerReturns, MarkRevoked,
         DeleteRow, Timeout, Check, agentVars
<1>2. \A c \in calls' : c.op = "add" /\ c.pc \in {"set", "saving", "ok"} => c \in calls
  <2>1. CASE CallsFrame(r)
    BY <2>1 DEF CallsFrame
  <2>2. ASSUME NEW s, NEW op, NEW k, NEW a, calls' = calls \cup {Call(r, s, op, k, a)}
        PROVE  \A c \in calls' :
                 c.op = "add" /\ c.pc \in {"set", "saving", "ok"} => c \in calls
    BY <2>2 DEF Call
  <2>3. CASE SendsAdd(r)
    <3>1. PICK k \in Keys, a \in Ips : calls' = calls \cup {Call(r, req[r].server, "add", k, a)}
      BY <2>3 DEF SendsAdd, addPeer
    <3> QED  BY <2>2, <3>1
  <2>4. CASE SendsRemove(r)
    BY <2>2, <2>4 DEF SendsRemove, removePeer
  <2> QED  BY <1>0, <2>1, <2>3, <2>4, PanelSteps
<1>3. ASSUME req'[r].pc # "inserting"  PROVE AddedIsRouted'
  BY <1>0, <1>1, <1>2, <1>3 DEF RoutedInv, AddedIsRouted
<1>4. ASSUME RowsOnlyClose,
             \A k \in Keys : rows'[k].status = "ACTIVE" /\ req[r].peer = k
                             /\ req[r].pc \in {"removing", "closing"} =>
               req'[r].peer = k /\ req'[r].pc \in {"removing", "closing"}
      PROVE  ActivePeersRouted'
  BY <1>0, <1>1, <1>4, RoutedFrame DEF RoutedInv, BeingRemoved, IsActive
<1>5. UNCHANGED rows => RowsOnlyClose
  BY <1>0 DEF RowsOnlyClose
<1>6. CASE Begin(r)
  <2>1. UNCHANGED rows /\ req[r].pc = "idle" /\ req'[r].pc # "inserting"
    BY <1>0, <1>6, ZenonT(30) DEF Begin, BeginCreate, BeginRecreate, BeginRevoke, BeginAdminDelete, Idle
  <2> QED  BY <1>3, <1>4, <1>5, <2>1
<1>7. CASE GetActive(r) \/ CountPeers(r) \/ FindServer(r) \/ LoadOwned(r)
  <2>1. /\ UNCHANGED rows
        /\ req[r].pc \in {"getActive", "countPeers", "findServer", "loadOwned"}
        /\ req'[r].pc # "inserting"
    BY <1>0, <1>7
       DEF GetActive, CountPeers, FindServer, LoadOwned, Check, Goto, Finish, Idle,
           RequestRecords
  <2> QED  BY <1>3, <1>4, <1>5, <2>1
<1>8. CASE FindPeers(r) \/ FindPeersThrows(r) \/ AddPeerFails(r)
  <2>1. CASE FindPeers(r)
    <3> DEFINE a == nextFreeIp(Subnet, ServerAddress, UsedIps(req[r].server))
    <3>1. PICK k \in Keys :
            req' = [req EXCEPT ![r].pc = "adding", ![r].key = k, ![r].ip = a]
      BY <2>1 DEF FindPeers
    <3>2. UNCHANGED rows /\ req[r].pc = "findPeers"
      BY <2>1 DEF FindPeers
    <3> HIDE DEF a
    <3>3. req'[r].pc = "adding"
      BY <1>0, <3>1 DEF RequestRecords
    <3> QED  BY <1>3, <1>4, <1>5, <3>2, <3>3
  <2>2. CASE FindPeersThrows(r) \/ AddPeerFails(r)
    <3>1. /\ UNCHANGED rows
          /\ req[r].pc \in {"findPeers", "adding"}
          /\ req'[r].pc # "inserting"
      BY <1>0, <2>2 DEF FindPeersThrows, AddPeerFails, Finish, Idle
    <3> QED  BY <1>3, <1>4, <1>5, <3>1
  <2> QED  BY <1>8, <2>1, <2>2
<1>9. CASE AddPeerOk(r)
  <2>1. PICK c \in calls : c.client = r /\ c.pc = "ok"
    BY <1>9 DEF AddPeerOk, Answered, CallsOf
  <2>2. /\ c.op = "add" /\ c.key = req[r].key /\ c.ip = req[r].ip
        /\ c.server = req[r].server
    BY <1>0, <1>9, <2>1 DEF AddPeerOk, CallsMatch, CallMatches, CallRecords
  <2>3. routes[req[r].server][req[r].ip] = req[r].key
    BY <2>1, <2>2 DEF RoutedInv, AddedIsRouted
  <2>4. req'[r].server = req[r].server /\ req'[r].ip = req[r].ip /\ req'[r].key = req[r].key
    BY <1>0, <1>9 DEF AddPeerOk, Goto, RequestRecords
  <2>5. AddedIsRouted'
    BY <1>0, <1>1, <1>2, <2>3, <2>4 DEF RoutedInv, AddedIsRouted
  <2>6. UNCHANGED rows /\ req[r].pc = "adding"
    BY <1>9 DEF AddPeerOk
  <2> QED  BY <1>4, <1>5, <2>5, <2>6
<1>10. CASE Insert(r)
  <2> DEFINE k   == req[r].key
             new == [status |-> "ACTIVE", user |-> req[r].user,
                     server |-> req[r].server, ip |-> req[r].ip]
  <2>1. /\ req[r].pc = "inserting" /\ req'[r].pc # "inserting" /\ k \in Keys
        /\ routes[new.server][new.ip] = k
    BY <1>0, <1>10, RequestTypes
       DEF Insert, Goto, Finish, Idle, RequestRecords, RequestTyped, RoutedInv,
           AddedIsRouted
  <2>2. CASE UNCHANGED rows
    BY <1>3, <1>4, <1>5, <2>1, <2>2
  <2>3. CASE rows' = [rows EXCEPT ![k] = new]
    <3>1. ASSUME NEW j \in Keys, IsActive(j)', ~BeingRemoved(j)'
          PROVE  routes'[rows'[j].server][rows'[j].ip] = j
      <4>1. CASE j = k
        BY <1>0, <1>1, <2>1, <2>3, <4>1
      <4>2. CASE j # k
        <5>1. rows'[j] = rows[j]
          BY <1>0, <2>3, <4>2
        <5>2. IsActive(j) /\ ~BeingRemoved(j)
          BY <1>0, <2>1, <3>1, <5>1 DEF IsActive, BeingRemoved
        <5> QED  BY <1>1, <5>1, <5>2 DEF RoutedInv, ActivePeersRouted
      <4> QED  BY <4>1, <4>2
    <3> QED  BY <1>3, <2>1, <3>1 DEF ActivePeersRouted
  <2> QED  BY <1>10, <2>2, <2>3 DEF Insert, NewRow
<1>11. CASE FindNode(r) \/ RemovePeerReturns(r)
  <2>1. /\ UNCHANGED rows
        /\ req'[r].pc \in {"removing", "closing"} /\ req'[r].peer = req[r].peer
    BY <1>0, <1>11 DEF FindNode, RemovePeerReturns, Goto, RequestRecords
  <2> QED  BY <1>3, <1>4, <1>5, <2>1
<1>12. CASE MarkRevoked(r) \/ DeleteRow(r)
  <2>1. RowsOnlyClose /\ req'[r].pc = "idle"
    BY <1>0, <1>12, CloseSteps DEF MarkRevoked, DeleteRow, Finish, Idle
  <2>2. ASSUME NEW k \in Keys, k = req[r].peer  PROVE rows'[k].status # "ACTIVE"
    BY <1>0, <1>12, <2>2, ZenonT(30)
       DEF MarkRevoked, DeleteRow, Revoked, Deleted, Exists, Rows
  <2> QED  BY <1>3, <1>4, <2>1, <2>2
<1>13. ~Timeout(r)
  BY DEF Timeout, Patient
<1> QED
  BY <1>6, <1>7, <1>8, <1>9, <1>10, <1>11, <1>12, <1>13 DEF RequestStep

LEMMA RoutedStep ==
  ASSUME OneRequest, Patient, TablesKept, RoutedInv, [Next]_vars
  PROVE  RoutedInv'
<1>0. SafeInv /\ AddressReserved /\ CallsMatch /\ TypeInv /\ rows \in [Keys -> Rows]
  BY DEF RoutedInv, SafeInv, TypeInv, TypeOK
<1>1. SafeInv' /\ AddressReserved' /\ CallsMatch'
  BY <1>0, SafeStep, ReservedStep, CallsMatchStep
<1>2. ASSUME UNCHANGED <<agentVars, req>>, RowsOnlyClose
      PROVE  AddedIsRouted' /\ ActivePeersRouted'
  BY <1>2, RoutedFrame
     DEF RoutedInv, AddedIsRouted, At, BeingRemoved, agentVars
<1>3. ASSUME UNCHANGED vars  PROVE AddedIsRouted' /\ ActivePeersRouted'
  <2>1. RowsOnlyClose
    BY <1>0, <1>3 DEF vars, panelVars, RowsOnlyClose
  <2> QED  BY <1>2, <1>3, <2>1 DEF vars, panelVars
<1>4. ASSUME EnvStep  PROVE AddedIsRouted' /\ ActivePeersRouted'
  <2>1. RowsOnlyClose
    BY <1>0, <1>4, CloseSteps
       DEF EnvStep, PanelCrash, SubscriptionsChange, HealthChanges, panelVars, RowsOnlyClose
  <2> QED  BY <1>2, <1>4, <2>1, EnvLeavesCalls
<1>5. AddedIsRouted' /\ ActivePeersRouted'
  BY <1>3, <1>4, RoutedAgentStep, RoutedRequestStep DEF Next
<1> QED  BY <1>1, <1>5 DEF RoutedInv

(* With one request at a time every stored peer is served by its node,     *)
(* although commands fail and answers are lost: the row is stored only     *)
(* after the agent's answer, and taken out before it is closed.  Nothing   *)
(* is lost when the process is not restarted, no answer is given up and no *)
(* node falls back to an older file.                                       *)
THEOREM SerialPeersRouted ==
  ASSUME OneRequest, Patient, TablesKept  PROVE Spec => []ActivePeersRouted
<1>1. Init => RoutedInv
  BY InitSafeInv, InitReserved, InitCallsMatch, InitRouted DEF RoutedInv
<1>2. RoutedInv /\ [Next]_vars => RoutedInv'
  BY RoutedStep
<1>3. RoutedInv => ActivePeersRouted
  BY DEF RoutedInv
<1> QED  BY <1>1, <1>2, <1>3, PTL DEF Spec

-----------------------------------------------------------------------------
(* Agents that carry out what they are told: a revoked peer is off its     *)
(* node, however requests interleave.                                      *)
CommandsRun == Faults \cap {"lostCall", "wgSetFails"} = {}

(* The peer a request takes down was stored, on the request's server.      *)
PeerStored ==
  \A r \in Clients : req[r].op = "recreate" \/ req[r].pc \in RemovePcs =>
    /\ req[r].peer \in Keys
    /\ rows[req[r].peer].status # "NONE"
    /\ rows[req[r].peer].server = req[r].server

NoRowsOfGone == \A k \in Keys : Exists(k) => servers[rows[k].server] # "GONE"

RemovalsUnderWay ==
  /\ \A r \in Clients : At(r, "removing") => \E c \in calls : c.client = r
  /\ \A c \in calls : c.pc # "error"

RemovedIsOff ==
  /\ \A c \in calls : c.op = "remove" /\ c.pc # "sent" =>
       \A a \in Ips : routes[c.server][a] # c.key
  /\ \A r \in Clients : /\ At(r, "closing")
                        /\ req[r].op \in {"revoke", "recreate"}
                        /\ Exists(req[r].peer)
       => \A s \in Servers, a \in Ips : routes[s][a] # req[r].peer

OffInv == /\ SafeInv /\ CallsMatch
          /\ PeerStored /\ NoRowsOfGone /\ RemovalsUnderWay
          /\ RemovedIsOff /\ RevokedOffNode

LEMMA InitOff ==
  Init => PeerStored /\ NoRowsOfGone /\ RemovalsUnderWay /\ RemovedIsOff /\ RevokedOffNode
  BY DEF Init, AgentInit, PeerStored, NoRowsOfGone, RemovalsUnderWay, RemovedIsOff,
         RevokedOffNode, At, Idle, NoRow, Exists, RemovePcs

(* What a step does to the rows that are stored.                           *)
StoredFrame ==
  \A k \in Keys : rows[k].status # "NONE" =>
    /\ rows'[k].status # "NONE"
    /\ rows'[k].server = rows[k].server
    /\ Exists(k)' => Exists(k)
    /\ rows'[k].status = "REVOKED" =>
         \/ rows[k].status = "REVOKED"
         \/ \E r \in Clients : MarkRevoked(r) /\ req[r].peer = k /\ Exists(k)

LEMMA StoredSteps ==
  ASSUME SafeInv, [Next]_vars
  PROVE  /\ StoredFrame
         /\ \A k \in Keys : rows[k].status = "NONE" =>
              \/ rows'[k].status = "NONE"
              \/ \E r \in Clients : StoreKind(r) /\ rows'[k].server = req[r].server
                                    /\ rows'[k].status = "ACTIVE"
<1>0. TypeInv /\ KeysFresh /\ rows \in [Keys -> Rows] /\ req \in [Clients -> RequestRecords]
  BY DEF SafeInv, TypeInv, TypeOK
<1>1. ASSUME UNCHANGED rows  PROVE StoredFrame
  BY <1>1 DEF StoredFrame, Exists
<1>2. ASSUME NEW r \in Clients, StoreKind(r)
      PROVE  /\ StoredFrame
             /\ \A k \in Keys : rows[k].status = "NONE" =>
                  \/ rows'[k].status = "NONE"
                  \/ rows'[k].server = req[r].server /\ rows'[k].status = "ACTIVE"
  <2> DEFINE new == [status |-> "ACTIVE", user |-> req[r].user,
                     server |-> req[r].server, ip |-> req[r].ip]
  <2>1. /\ rows' = [rows EXCEPT ![req[r].key] = new]
        /\ rows[req[r].key].status = "NONE"
    BY <1>0, <1>2 DEF StoreKind, Insert, NewRow, At, HasNewKey, KeysFresh
  <2>2. \A k \in Keys : rows'[k] = IF k = req[r].key THEN new ELSE rows[k]
    BY <1>0, <2>1
  <2>3. new.status = "ACTIVE" /\ new.server = req[r].server
    OBVIOUS
  <2> HIDE DEF new
  <2> QED  BY <2>1, <2>2, <2>3 DEF StoredFrame, Exists
<1>3. ASSUME NEW r \in Clients, MarkRevoked(r)
      PROVE  StoredFrame
  <2>1. \A k \in Keys : rows'[k] = rows[k] \/ (k = req[r].peer /\ Exists(k))
    BY <1>0, <1>3 DEF MarkRevoked
  <2>2. RowsOnlyClose
    BY <1>0, <1>3, CloseSteps
  <2> QED  BY <1>3, <2>1, <2>2 DEF StoredFrame, RowsOnlyClose, Exists
<1>4. ASSUME NEW r \in Clients, DeleteRow(r)  PROVE StoredFrame
  <2>1. RowsOnlyClose
    BY <1>0, <1>4, CloseSteps
  <2>2. \A k \in Keys : rows'[k] = rows[k] \/ rows'[k].status = "DELETED"
    BY <1>0, <1>4 DEF DeleteRow, Deleted, Rows
  <2> QED  BY <2>1, <2>2 DEF StoredFrame, RowsOnlyClose, Exists
<1>5. ASSUME NEW s \in Servers, ServerDeleted(s)  PROVE StoredFrame
  <2>1. RowsOnlyClose
    BY <1>0, <1>5, CloseSteps
  <2>2. \A k \in Keys : rows'[k] = rows[k] \/ rows'[k].status = "DELETED"
    BY <1>0, <1>5 DEF ServerDeleted, Deleted, Rows
  <2> QED  BY <2>1, <2>2 DEF StoredFrame, RowsOnlyClose, Exists
<1>6. ASSUME ~ \E r \in Clients : StoreKind(r)
      PROVE  \A k \in Keys : rows[k].status = "NONE" => rows'[k].status = "NONE"
  <2>1. CASE NeitherKind
    BY <2>1 DEF NeitherKind, RowsOnlyClose, Exists
  <2>2. CASE \E r \in Clients : FindPeers(r)
    BY <2>2 DEF FindPeers
  <2> QED  BY <1>0, <1>6, <2>1, <2>2, StepKinds
<1>7. \/ UNCHANGED rows
      \/ \E r \in Clients : StoreKind(r) \/ MarkRevoked(r) \/ DeleteRow(r)
      \/ \E s \in Servers : ServerDeleted(s)
  <2>1. ASSUME NEW r \in Clients, Begin(r) \/ RequestStep(r)
        PROVE  UNCHANGED rows \/ StoreKind(r) \/ MarkRevoked(r) \/ DeleteRow(r)
    BY <2>1
       DEF Begin, BeginCreate, BeginRecreate, BeginRevoke, BeginAdminDelete, RequestStep,
           GetActive, CountPeers, FindServer, FindPeers, FindPeersThrows, AddPeerOk,
           AddPeerFails, Insert, LoadOwned, FindNode, RemovePeerReturns,
           Timeout, Check, StoreKind, NewRow
  <2> QED
    BY <2>1 DEF Next, vars, panelVars, AgentNext, EnvStep, PanelCrash, SubscriptionsChange,
                HealthChanges
<1> QED  BY <1>1, <1>2, <1>3, <1>4, <1>5, <1>6, <1>7

(* The request about an existing peer: it goes on, or begins with the row. *)
PeerFrame ==
  \A r \in Clients : req'[r].op = "recreate" \/ req'[r].pc \in RemovePcs =>
    \/ /\ req[r].op = "recreate" \/ req[r].pc \in RemovePcs
       /\ req'[r].peer = req[r].peer /\ req'[r].server = req[r].server
    \/ /\ req'[r].peer \in Keys
       /\ rows[req'[r].peer].status # "NONE"
       /\ req'[r].server = rows[req'[r].peer].server

LEMMA PeerSteps == TypeInv /\ [Next]_vars => PeerFrame
<1> SUFFICES ASSUME TypeInv, [Next]_vars PROVE PeerFrame
  OBVIOUS
<1> USE DEF At
<1>0. req \in [Clients -> RequestRecords] /\ rows \in [Keys -> Rows]
  BY DEF TypeInv, TypeOK
<1>1. ASSUME UNCHANGED req  PROVE PeerFrame
  BY <1>1 DEF PeerFrame
<1>2. ASSUME NEW r \in Clients, NEW q, req' = [req EXCEPT ![r] = q],
             q.op = "recreate" \/ q.pc \in RemovePcs =>
               \/ /\ req[r].op = "recreate" \/ req[r].pc \in RemovePcs
                  /\ q.peer = req[r].peer /\ q.server = req[r].server
               \/ /\ q.peer \in Keys
                  /\ rows[q.peer].status # "NONE"
                  /\ q.server = rows[q.peer].server
      PROVE  PeerFrame
  BY <1>0, <1>2 DEF PeerFrame
<1>3. ASSUME NEW r \in Clients, NEW pc, Goto(r, pc),
             \/ pc \notin RemovePcs
             \/ req[r].op = "recreate"
             \/ req[r].pc \in RemovePcs
      PROVE  PeerFrame
  <2> DEFINE q == [req[r] EXCEPT !.pc = pc]
  <2>1. q.pc = pc /\ q.op = req[r].op /\ q.peer = req[r].peer /\ q.server = req[r].server
    BY <1>0 DEF RequestRecords
  <2>2. req' = [req EXCEPT ![r] = q]
    BY <1>3 DEF Goto
  <2> HIDE DEF q
  <2> QED  BY <1>2, <1>3, <2>1, <2>2
<1>4. ASSUME NEW r \in Clients, Finish(r)  PROVE PeerFrame
  BY <1>2, <1>4 DEF Finish, Idle, RemovePcs
<1>5. CASE UNCHANGED vars \/ AgentNext
  BY <1>1, <1>5 DEF vars, panelVars, AgentNext
<1>6. CASE EnvStep
  <2>1. CASE PanelCrash
    BY <2>1 DEF PanelCrash, PeerFrame, Idle, RemovePcs
  <2> QED
    BY <1>1, <1>6, <2>1
       DEF EnvStep, SubscriptionsChange, HealthChanges, ServerDeleted, panelVars
<1>7. ASSUME NEW r \in Clients, Begin(r)  PROVE PeerFrame
  <2>1. ASSUME NEW u \in Users, NEW s \in Servers, BeginCreate(r, u, s)
        PROVE  PeerFrame
    <3> DEFINE q == [Idle EXCEPT !.op = "create", !.pc = "countPeers",
                                 !.user = u, !.server = s]
    <3>1. req' = [req EXCEPT ![r] = q]
      BY <2>1 DEF BeginCreate
    <3>2. q.op = "create" /\ q.pc \notin RemovePcs
      BY DEF Idle, RemovePcs
    <3> HIDE DEF q
    <3> QED  BY <1>2, <3>1, <3>2
  <2>2. ASSUME NEW op, NEW pc, NEW u, NEW k \in Keys, rows[k].status # "NONE",
               req' = [req EXCEPT ![r] = [Idle EXCEPT !.op = op, !.pc = pc, !.user = u,
                                            !.server = rows[k].server, !.peer = k]]
        PROVE  PeerFrame
    <3> DEFINE q == [Idle EXCEPT !.op = op, !.pc = pc, !.user = u,
                                 !.server = rows[k].server, !.peer = k]
    <3>1. q.peer = k /\ q.server = rows[k].server
      BY DEF Idle
    <3>2. req' = [req EXCEPT ![r] = q]
      BY <2>2
    <3> HIDE DEF q
    <3> QED  BY <1>2, <2>2, <3>1, <3>2
  <2>3. ASSUME NEW u \in Users, NEW k \in Keys, BeginRecreate(r, u, k)
        PROVE  PeerFrame
    <3>1. rows[k].status # "NONE"
      BY <2>3 DEF BeginRecreate, Owned, IsActive
    <3> QED  BY <2>2, <2>3, <3>1 DEF BeginRecreate
  <2>5. ASSUME NEW u \in Users, NEW k \in Keys, BeginRevoke(r, u, k)
        PROVE  PeerFrame
    <3>1. rows[k].status # "NONE"
      BY <2>5 DEF BeginRevoke, Owned, IsActive
    <3> QED  BY <2>2, <2>5, <3>1 DEF BeginRevoke
  <2>4. ASSUME NEW k \in Keys, BeginAdminDelete(r, k)  PROVE PeerFrame
    <3>1. rows[k].status # "NONE"
      BY <2>4 DEF BeginAdminDelete, Exists
    <3> QED  BY <2>2, <2>4, <3>1 DEF BeginAdminDelete
  <2> QED  BY <1>7, <2>1, <2>3, <2>4, <2>5 DEF Begin
<1>8. ASSUME NEW r \in Clients, RequestStep(r)  PROVE PeerFrame
  <2>1. CASE GetActive(r) \/ CountPeers(r) \/ FindServer(r) \/ LoadOwned(r)
    BY <1>3, <1>4, <2>1 DEF GetActive, CountPeers, FindServer, LoadOwned, Check, RemovePcs
  <2>2. CASE FindPeers(r)
    <3> DEFINE a == nextFreeIp(Subnet, ServerAddress, UsedIps(req[r].server))
    <3>1. PICK k \in Keys :
            req' = [req EXCEPT ![r].pc = "adding", ![r].key = k, ![r].ip = a]
      BY <2>2 DEF FindPeers
    <3> HIDE DEF a
    <3> DEFINE q == [req[r] EXCEPT !.pc = "adding", !.key = k, !.ip = a]
    <3>2. /\ req' = [req EXCEPT ![r] = q]
          /\ q.op = req[r].op /\ q.peer = req[r].peer /\ q.server = req[r].server
          /\ q.pc = "adding"
      BY <1>0, <3>1 DEF RequestRecords
    <3> HIDE DEF q
    <3> QED  BY <1>2, <3>2 DEF RemovePcs
  <2>3. CASE FindPeersThrows(r) \/ AddPeerFails(r) \/ MarkRevoked(r) \/ DeleteRow(r)
    BY <1>4, <2>3 DEF FindPeersThrows, AddPeerFails, MarkRevoked, DeleteRow
  <2>4. CASE AddPeerOk(r) \/ Insert(r)
    BY <1>3, <1>4, <2>4 DEF AddPeerOk, Insert, RemovePcs
  <2>5. CASE FindNode(r) \/ RemovePeerReturns(r) \/ Timeout(r)
    BY <1>3, <1>4, <2>5 DEF FindNode, RemovePeerReturns, Timeout, RemovePcs
  <2> QED
    BY <1>8, <2>1, <2>2, <2>3, <2>4, <2>5 DEF RequestStep
<1> QED  BY <1>5, <1>6, <1>7, <1>8 DEF Next

LEMMA PeerStoredStep ==
  ASSUME SafeInv, PeerStored, [Next]_vars  PROVE PeerStored'
<1>1. PeerFrame /\ StoredFrame
  BY PeerSteps, StoredSteps DEF SafeInv
<1> QED  BY <1>1 DEF PeerFrame, StoredFrame, PeerStored

LEMMA NoRowsOfGoneStep ==
  ASSUME SafeInv, NoRowsOfGone, [Next]_vars  PROVE NoRowsOfGone'
<1>0. /\ servers \in [Servers -> {"ACTIVE", "UNREACHABLE", "GONE"}]
      /\ rows \in [Keys -> Rows] /\ TypeInv
      /\ \A k \in Keys : rows[k].status # "NONE" => rows[k].server \in Servers
  BY DEF SafeInv, TypeInv, TypeOK, RowsTyped
<1>1. StoredFrame
  BY StoredSteps
<1>2. ASSUME NEW k \in Keys, Exists(k)', Exists(k),
             servers'[rows[k].server] = "GONE" => servers[rows[k].server] = "GONE"
      PROVE  servers'[rows'[k].server] # "GONE"
  BY <1>1, <1>2 DEF StoredFrame, NoRowsOfGone, Exists
<1>3. CASE UNCHANGED servers
  <2>1. ASSUME NEW k \in Keys, Exists(k)', ~Exists(k)
        PROVE  servers'[rows'[k].server] # "GONE"
    <3>1. rows[k].status = "NONE"
      BY <1>1, <2>1 DEF StoredFrame
    <3>2. PICK r \in Clients : StoreKind(r) /\ rows'[k].server = req[r].server
      BY <2>1, <3>1, StoredSteps DEF Exists
    <3> QED  BY <1>3, <3>2 DEF StoreKind, Insertable
  <2> QED  BY <1>2, <1>3, <2>1 DEF NoRowsOfGone
<1>4. ASSUME NEW s \in Servers, HealthChanges(s)  PROVE NoRowsOfGone'
  BY <1>0, <1>4 DEF HealthChanges, panelVars, NoRowsOfGone, Exists
<1>5. ASSUME NEW s \in Servers, ServerDeleted(s)  PROVE NoRowsOfGone'
  <2>1. ASSUME NEW k \in Keys, Exists(k)'
        PROVE  Exists(k) /\ rows'[k] = rows[k] /\ rows[k].server # s
    BY <1>0, <1>5, <2>1 DEF ServerDeleted, Deleted, Rows, Exists
  <2>2. servers' = [servers EXCEPT ![s] = "GONE"]
    BY <1>5 DEF ServerDeleted
  <2> QED  BY <1>0, <2>1, <2>2 DEF NoRowsOfGone, Exists
<1>6. \/ UNCHANGED servers
      \/ \E s \in Servers : HealthChanges(s) \/ ServerDeleted(s)
  <2>1. ASSUME NEW r \in Clients, Begin(r) \/ RequestStep(r)  PROVE UNCHANGED servers
    BY <2>1
       DEF Begin, BeginCreate, BeginRecreate, BeginRevoke, BeginAdminDelete, RequestStep,
           GetActive, CountPeers, FindServer, FindPeers, FindPeersThrows, AddPeerOk,
           AddPeerFails, Insert, LoadOwned, FindNode, RemovePeerReturns, MarkRevoked,
           DeleteRow, Timeout, Check, envVars
  <2> QED
    BY <2>1 DEF Next, vars, envVars, AgentNext, EnvStep, PanelCrash, SubscriptionsChange
<1> QED  BY <1>3, <1>4, <1>5, <1>6

LEMMA RemovalsStep ==
  ASSUME TypeInv, Patient, CommandsRun, CallsMatch, RemovalsUnderWay, [Next]_vars
  PROVE  RemovalsUnderWay'
<1>0. req \in [Clients -> RequestRecords] /\ \A c \in calls : c \in CallRecords
  BY DEF TypeInv, TypeOK, AgentTypeOK
<1>1. CASE UNCHANGED <<calls, req>>
  BY <1>1 DEF RemovalsUnderWay, At
<1>2. CASE AgentNext
  <2>1. UNCHANGED req
    BY <1>2 DEF AgentNext, panelVars
  <2>2. ASSUME NEW c \in calls, CallStep(c)  PROVE RemovalsUnderWay'
    <3>1. c.client # Nobody
      BY NodeAgentAssumption DEF CallsMatch, CallMatches
    <3>2. /\ \A e \in calls : \E d \in calls' : d.client = e.client
          /\ \A d \in calls' : d.pc # "error"
      BY <2>2, <3>1, CallSteps DEF CommandsRun, RemovalsUnderWay, SameCall
    <3> QED  BY <2>1, <3>2 DEF RemovalsUnderWay, At
  <2>3. ASSUME NEW s \in Servers, wgRestart(s) \/ Reinstall(s)  PROVE RemovalsUnderWay'
    BY <1>1, <2>1, <2>3 DEF wgRestart, Reinstall
  <2> QED  BY <1>2, <2>2, <2>3 DEF AgentNext, AgentStep
<1>3. CASE EnvStep
  BY <1>1, <1>3, EnvLeavesCalls DEF agentVars
<1>4. ASSUME NEW r \in Clients, Begin(r) \/ RequestStep(r)  PROVE RemovalsUnderWay'
  <2>1. CASE CallsFrame(r)
    BY <2>1 DEF CallsFrame, RemovalsUnderWay, At
  <2>2. CASE SendsAdd(r)
    <3>1. PICK k, a :
            /\ req' = [req EXCEPT ![r] = [req[r] EXCEPT !.pc = "adding", !.key = k,
                                                        !.ip = a]]
            /\ calls' = calls \cup {Call(r, req[r].server, "add", k, a)}
      BY <2>2 DEF SendsAdd, addPeer
    <3>2. req'[r].pc = "adding" /\ \A q \in Clients \ {r} : req'[q] = req[q]
      BY <1>0, <3>1 DEF RequestRecords
    <3> QED  BY <3>1, <3>2 DEF RemovalsUnderWay, At, Call
  <2>3. CASE SendsRemove(r)
    <3> DEFINE d == Call(r, req[r].server, "remove", req[r].peer, Null)
    <3>1. (\A q \in Clients \ {r} : req'[q] = req[q]) /\ calls' = calls \cup {d}
      BY <1>0, <2>3 DEF SendsRemove, Goto, removePeer
    <3>2. d.client = r /\ d.pc = "sent"
      BY DEF Call
    <3> HIDE DEF d
    <3> QED  BY <3>1, <3>2 DEF RemovalsUnderWay, At
  <2> QED  BY <1>4, <2>1, <2>2, <2>3, PanelSteps
<1> QED
  BY <1>1, <1>2, <1>3, <1>4 DEF Next, vars, agentVars, panelVars

(* No stored peer comes onto a node: an add carries a key yet to be stored.*)
NotBack ==
  \A k \in Keys, s \in Servers, a \in Ips :
    rows[k].status # "NONE" /\ routes'[s][a] = k => routes[s][a] = k

LEMMA NotBackStep ==
  ASSUME SafeInv, CallsMatch, TablesKept, [Next]_vars  PROVE NotBack
<1>0. /\ TypeInv /\ routes \in [Servers -> Tables]
      /\ \A c \in calls : c \in CallRecords
  BY DEF SafeInv, TypeInv, TypeOK, AgentTypeOK
<1>1. CASE UNCHANGED routes
  BY <1>1 DEF NotBack
<1>2. ASSUME NEW c \in calls, WgSet(c)  PROVE NotBack
  <2>1. c \in CallRecords /\ c.server \in Servers /\ routes[c.server] \in Tables
    BY <1>0 DEF CallRecords
  <2>2. CASE c.op = "add"
    <3>1. rows[c.key].status = "NONE" /\ c.ip \in Ips
      BY <1>0, <2>2, RequestTypes
         DEF CallsMatch, CallMatches, At, HasNewKey, SafeInv, KeysFresh, RequestTyped
    <3>2. routes' = [routes EXCEPT ![c.server] = Assign(routes[c.server], c.ip, c.key)]
      BY <1>2, <2>2 DEF WgSet
    <3>3. \A s \in Servers, a \in Ips : routes'[s][a] = routes[s][a] \/ routes'[s][a] = c.key
      BY <1>0, <2>1, <3>2 DEF Assign, Tables
    <3> QED  BY <3>1, <3>3 DEF NotBack
  <2>3. CASE c.op # "add"
    <3>1. routes' = [routes EXCEPT ![c.server] = Without(routes[c.server], c.key)]
      BY <1>2, <2>3 DEF WgSet
    <3>2. \A s \in Servers, a \in Ips : routes'[s][a] = routes[s][a] \/ routes'[s][a] = NoKey
      BY <1>0, <2>1, <3>1 DEF Without, Tables
    <3> QED  BY <3>2, NodeAgentAssumption DEF NotBack
  <2> QED  BY <2>2, <2>3
<1>3. UNCHANGED routes \/ \E c \in calls : WgSet(c)
  <2>1. ASSUME NEW r \in Clients, Begin(r) \/ RequestStep(r)  PROVE UNCHANGED routes
    BY <2>1
       DEF Begin, BeginCreate, BeginRecreate, BeginRevoke, BeginAdminDelete, RequestStep,
           GetActive, CountPeers, FindServer, FindPeers, FindPeersThrows, AddPeerOk,
           AddPeerFails, Insert, LoadOwned, FindNode, RemovePeerReturns, MarkRevoked,
           DeleteRow, Timeout, Check, agentVars
  <2>2. AgentNext => UNCHANGED routes \/ \E c \in calls : WgSet(c)
    BY DEF AgentNext, AgentStep, CallStep, WgSetFails, SaveDump, SaveRename, SaveFails,
           LoseCall, AnswerNobody, TablesKept, wgRestart, Reinstall
  <2> QED
    BY <2>1, <2>2
       DEF Next, vars, agentVars, EnvStep, PanelCrash, SubscriptionsChange, HealthChanges,
           ServerDeleted
<1> QED  BY <1>1, <1>2, <1>3

LEMMA RevokedOffNodeStep ==
  ASSUME OffInv, TablesKept, [Next]_vars  PROVE RevokedOffNode'
<1> SUFFICES ASSUME NEW k \in Keys, NEW s \in Servers, NEW a \in Ips,
                    rows'[k].status = "REVOKED"
             PROVE  routes'[s][a] # k
  BY DEF RevokedOffNode
<1>1. rows[k].status # "NONE"
  BY StoredSteps DEF OffInv
<1>2. routes'[s][a] = k => routes[s][a] = k
  BY <1>1, NotBackStep DEF OffInv, NotBack
<1>3. CASE rows[k].status = "REVOKED"
  BY <1>2, <1>3 DEF OffInv, RevokedOffNode
<1>4. ASSUME NEW r \in Clients, MarkRevoked(r), req[r].peer = k, Exists(k)
      PROVE  routes'[s][a] # k
  BY <1>2, <1>4 DEF MarkRevoked, OffInv, RemovedIsOff
<1> QED  BY <1>1, <1>3, <1>4, StoredSteps DEF StoredFrame, OffInv

(* The calls' part: a removal that has run leaves its peer off its node.   *)
LEMMA RemovedCallsStep ==
  ASSUME OffInv, Patient, TablesKept, CommandsRun, [Next]_vars
  PROVE  \A d \in calls' : d.op = "remove" /\ d.pc # "sent" =>
           \A a \in Ips : routes'[d.server][a] # d.key
<1> SUFFICES ASSUME NEW d \in calls', d.op = "remove", d.pc # "sent", NEW a \in Ips
             PROVE  routes'[d.server][a] # d.key
  OBVIOUS
<1>0. /\ TypeInv /\ CallsMatch /\ \A c \in calls : c \in CallRecords
      /\ routes \in [Servers -> Tables]
  BY DEF OffInv, SafeInv, TypeInv, TypeOK, AgentTypeOK
<1>1. ASSUME NEW c \in calls, c.op = "remove"
      PROVE  c.server \in Servers /\ c.key \in Keys /\ rows[c.key].status # "NONE"
  BY <1>0, <1>1 DEF CallsMatch, CallMatches, OffInv, PeerStored, At, RemovePcs, CallRecords
<1>2. NotBack
  BY NotBackStep DEF OffInv
<1>3. ASSUME NEW c \in calls, SameCall(c, d), c.pc # "sent"
      PROVE  routes'[d.server][a] # d.key
  <2>1. c.op = "remove" /\ c.server = d.server /\ c.key = d.key
    BY <1>3 DEF SameCall
  <2>2. routes[d.server][a] # d.key
    BY <1>3, <2>1 DEF OffInv, RemovedIsOff
  <2> QED  BY <1>1, <1>2, <2>1, <2>2 DEF NotBack
<1>4. CASE d \in calls
  BY <1>3, <1>4 DEF SameCall
<1>5. CASE d \notin calls
  <2>1. CASE AgentNext
    <3>1. PICK c \in calls : CallStep(c)
      BY <1>5, <2>1 DEF AgentNext, AgentStep, wgRestart, Reinstall
    <3>2. SameCall(c, d) /\ (c.pc # "sent" \/ WgSet(c))
      BY <1>0, <1>5, <3>1, CallSteps DEF CommandsRun
    <3>3. CASE WgSet(c)
      <4>1. c.op = "remove" /\ c.server = d.server /\ c.key = d.key
        BY <3>2 DEF SameCall
      <4>2. routes' = [routes EXCEPT ![c.server] = Without(routes[c.server], c.key)]
        BY <3>3, <4>1 DEF WgSet
      <4>3. c.server \in Servers /\ c.key # NoKey
        BY <1>1, <4>1, NodeAgentAssumption
      <4>4. routes'[c.server][a] = IF routes[c.server][a] = c.key THEN NoKey
                                                                   ELSE routes[c.server][a]
        BY <1>0, <4>2, <4>3 DEF Without
      <4> QED  BY <4>1, <4>3, <4>4
    <3> QED  BY <1>3, <3>2, <3>3
  <2>2. ASSUME NEW r \in Clients, Begin(r) \/ RequestStep(r)  PROVE FALSE
    <3>1. CASE CallsFrame(r)
      BY <1>5, <3>1 DEF CallsFrame
    <3>2. CASE SendsAdd(r)
      <4>1. PICK k, b : calls' = calls \cup {Call(r, req[r].server, "add", k, b)}
        BY <3>2 DEF SendsAdd, addPeer
      <4> QED  BY <1>5, <4>1 DEF Call
    <3>3. CASE SendsRemove(r)
      <4>1. calls' = calls \cup {Call(r, req[r].server, "remove", req[r].peer, Null)}
        BY <3>3 DEF SendsRemove, removePeer
      <4> QED  BY <1>5, <4>1 DEF Call
    <3> QED  BY <1>0, <2>2, <3>1, <3>2, <3>3, PanelSteps
  <2>3. ~EnvStep /\ ~UNCHANGED vars
    BY <1>5, EnvLeavesCalls DEF vars, agentVars
  <2> QED  BY <2>1, <2>2, <2>3 DEF Next
<1> QED  BY <1>4, <1>5

LEMMA ClosingSteps ==
  ASSUME TypeInv, Patient, NEW q \in Clients, [Next]_vars, req'[q].pc = "closing"
  PROVE  \/ req'[q] = req[q]
         \/ req'[q].op = "adminDelete"
         \/ /\ req'[q] = [req[q] EXCEPT !.pc = "closing"]
            /\ \/ RemovePeerReturns(q)
               \/ FindNode(q) /\ servers[req[q].server] = "GONE"
<1>0. req \in [Clients -> RequestRecords] /\ req[q] \in RequestRecords
  BY RequestTypes
<1>1. CASE UNCHANGED req
  BY <1>1
<1>2. ASSUME NEW r \in Clients, Begin(r) \/ RequestStep(r), r # q  PROVE req'[q] = req[q]
  BY <1>0, <1>2, PanelSteps DEF CallsFrame, SendsAdd, SendsRemove, Goto
<1>3. CASE Begin(q)
  <2>1. \A u \in Users, s \in Servers : ~BeginCreate(q, u, s)
    BY <1>0 DEF BeginCreate, Idle
  <2>2. \A u \in Users, k \in Keys : ~BeginRecreate(q, u, k) /\ ~BeginRevoke(q, u, k)
    BY <1>0 DEF BeginRecreate, BeginRevoke, Idle
  <2>3. \A k \in Keys : BeginAdminDelete(q, k) => req'[q].op = "adminDelete"
    BY <1>0 DEF BeginAdminDelete, Idle
  <2> QED  BY <1>3, <2>1, <2>2, <2>3 DEF Begin
<1>4. CASE RequestStep(q)
  <2>1. /\ \A pc : Goto(q, pc) => req'[q].pc = pc
        /\ Finish(q) => req'[q].pc = "idle"
    BY <1>0 DEF Goto, Finish, Idle, RequestRecords
  <2>7. Goto(q, "closing") => req'[q] = [req[q] EXCEPT !.pc = "closing"]
    BY <1>0 DEF Goto
  <2>2. ~(GetActive(q) \/ CountPeers(q) \/ FindServer(q) \/ LoadOwned(q))
    BY <2>1 DEF GetActive, CountPeers, FindServer, LoadOwned, Check
  <2>3. ~(FindPeersThrows(q) \/ AddPeerOk(q) \/ AddPeerFails(q) \/ Insert(q)
          \/ MarkRevoked(q) \/ DeleteRow(q))
    BY <2>1 DEF FindPeersThrows, AddPeerOk, AddPeerFails, Insert, MarkRevoked, DeleteRow
  <2>4. ~FindPeers(q) /\ ~Timeout(q)
    <3>1. FindPeers(q) => req'[q].pc # "closing"
      <4>1. FindPeers(q) => ~Begin(q)
        BY DEF FindPeers, Begin, BeginCreate, BeginRecreate, BeginRevoke, BeginAdminDelete, At
      <4>2. ASSUME FindPeers(q), NEW k, NEW a,
                   req' = [req EXCEPT ![q].pc = "adding", ![q].key = k, ![q].ip = a]
            PROVE  req'[q].pc = "adding"
        BY <1>0, <4>2 DEF RequestRecords
      <4> QED  BY <4>2 DEF FindPeers
    <3> QED  BY <3>1 DEF Timeout, Patient
  <2>5. FindNode(q) => servers[req[q].server] = "GONE"
    BY <2>1 DEF FindNode
  <2>6. FindNode(q) \/ RemovePeerReturns(q) => req'[q] = [req[q] EXCEPT !.pc = "closing"]
    BY <2>5, <2>7 DEF FindNode, RemovePeerReturns
  <2> QED  BY <1>4, <2>2, <2>3, <2>4, <2>5, <2>6 DEF RequestStep
<1> QED
  BY <1>1, <1>2, <1>3, <1>4, EnvLeavesCalls
     DEF Next, vars, panelVars, agentVars, AgentNext

(* The requests' part: a removal is answered before its row is closed.     *)
LEMMA RemovedRequestsStep ==
  ASSUME OffInv, Patient, TablesKept, [Next]_vars
  PROVE  \A r \in Clients : /\ req'[r].pc = "closing"
                            /\ req'[r].op \in {"revoke", "recreate"}
                            /\ Exists(req[r].peer)'
           => \A s \in Servers, a \in Ips : routes'[s][a] # req'[r].peer
<1> SUFFICES ASSUME NEW r \in Clients, req'[r].pc = "closing",
                    req'[r].op \in {"revoke", "recreate"}, Exists(req[r].peer)',
                    NEW s \in Servers, NEW a \in Ips
             PROVE  routes'[s][a] # req'[r].peer
  OBVIOUS
<1>0. /\ TypeInv /\ CallsMatch /\ \A c \in calls : c \in CallRecords
      /\ req[r] \in RequestRecords /\ NotBack /\ StoredFrame
  BY RequestTypes, NotBackStep, StoredSteps DEF OffInv, SafeInv, TypeInv, TypeOK, AgentTypeOK
<1>1. ASSUME req[r].pc \in RemovePcs, req'[r].peer = req[r].peer,
             Exists(req[r].peer) => routes[s][a] # req[r].peer
      PROVE  routes'[s][a] # req'[r].peer
  <2>1. req[r].peer \in Keys /\ rows[req[r].peer].status # "NONE"
    BY <1>1 DEF OffInv, PeerStored
  <2>2. Exists(req[r].peer)
    BY <1>0, <1>1, <2>1 DEF StoredFrame, Exists
  <2> QED  BY <1>0, <1>1, <2>1, <2>2 DEF NotBack
<1>2. CASE req'[r] = req[r]
  BY <1>1, <1>2 DEF OffInv, RemovedIsOff, At, RemovePcs
<1>3. CASE req'[r] = [req[r] EXCEPT !.pc = "closing"] /\ RemovePeerReturns(r)
  <2>1. req'[r].peer = req[r].peer /\ req[r].pc = "removing"
    BY <1>0, <1>3 DEF RequestRecords, RemovePeerReturns, At
  <2>2. PICK c \in calls : c.client = r /\ c.pc = "ok"
    BY <1>3, <2>1 DEF RemovePeerReturns, Answered, Failed, CallsOf, OffInv,
                      RemovalsUnderWay, At
  <2>3. c.op = "remove" /\ c.key = req[r].peer /\ c.server = req[r].server
    BY <1>0, <2>1, <2>2 DEF CallsMatch, CallMatches, At, CallRecords
  <2>4. /\ req[r].peer \in Keys /\ rows[req[r].peer].server = req[r].server
        /\ req[r].peer # NoKey
    BY <2>1, NodeAgentAssumption DEF OffInv, PeerStored, RemovePcs
  <2>5. routes[req[r].server][a] # req[r].peer
    BY <2>2, <2>3 DEF OffInv, RemovedIsOff
  <2>6. ASSUME Exists(req[r].peer), routes[s][a] = req[r].peer  PROVE FALSE
    <3>1. IsActive(req[r].peer)
      BY <2>4, <2>6 DEF OffInv, RevokedOffNode, Exists, IsActive
    <3>2. rows[req[r].peer].server = s
      BY <2>4, <2>6, <3>1 DEF OffInv, SafeInv, RoutesPlaced, Placed
    <3> QED  BY <2>4, <2>5, <2>6, <3>2
  <2> QED  BY <1>1, <2>1, <2>6 DEF RemovePcs
<1>4. CASE /\ req'[r] = [req[r] EXCEPT !.pc = "closing"]
           /\ FindNode(r) /\ servers[req[r].server] = "GONE"
  <2>1. req'[r].peer = req[r].peer /\ req[r].pc \in RemovePcs
    BY <1>0, <1>4 DEF RequestRecords, FindNode, At, RemovePcs
  <2>2. ~Exists(req[r].peer)
    BY <1>4, <2>1 DEF OffInv, NoRowsOfGone, PeerStored
  <2> QED  BY <1>1, <2>1, <2>2
<1> QED  BY <1>0, <1>2, <1>3, <1>4, ClosingSteps

LEMMA OffStep ==
  ASSUME OffInv, Patient, TablesKept, CommandsRun, [Next]_vars
  PROVE  OffInv'
<1>1. SafeInv' /\ CallsMatch' /\ PeerStored' /\ NoRowsOfGone' /\ RemovalsUnderWay'
  BY SafeStep, CallsMatchStep, PeerStoredStep, NoRowsOfGoneStep, RemovalsStep
     DEF OffInv, SafeInv
<1>2. RemovedIsOff'
  BY RemovedCallsStep, RemovedRequestsStep DEF RemovedIsOff, At
<1>3. RevokedOffNode'
  BY RevokedOffNodeStep
<1> QED  BY <1>1, <1>2, <1>3 DEF OffInv

(* Where agents carry out their commands and keep their tables, and nobody *)
(* gives up on an answer, a revoked peer is off every node - for any number*)
(* of concurrent creates, recreates, revocations and deletions, failing    *)
(* saves, deleted servers and expiring subscriptions.                      *)
THEOREM RevokedPeersOff ==
  ASSUME Patient, TablesKept, CommandsRun  PROVE Spec => []RevokedOffNode
<1>1. Init => OffInv
  BY InitSafeInv, InitCallsMatch, InitOff DEF OffInv
<1>2. OffInv /\ [Next]_vars => OffInv'
  BY OffStep
<1>3. OffInv => RevokedOffNode
  BY DEF OffInv
<1> QED  BY <1>1, <1>2, <1>3, PTL DEF Spec
===============================================================================
