----------------------------- MODULE SystemProofs -----------------------------
(***************************************************************************)
(* The panel as one process is a Payments and a Peers: what PaymentsProofs *)
(* and PeersProofs prove of each on its own holds in it.  And from the     *)
(* gateway to the node: nobody gets a peer who has not paid.               *)
(***************************************************************************)
EXTENDS System, PaymentsProofs

(* Every step of the panel is one of Payments, or none of its business: no *)
(* request for a peer, no agent and no server moves money or subscriptions.*)
LEMMA StepPays == SystemNext => [PayNext]_vars
BY DEF SystemNext, PeersMove, PaymentsMove, ProcessEnds, PayNext

THEOREM SystemRunsPayments == SystemSpec => PaySpec
<1>1. SystemInit => Init
  BY DEF SystemInit
<1>2. [SystemNext]_systemVars => [PayNext]_vars
  BY StepPays DEF systemVars
<1> QED BY <1>1, <1>2, PTL DEF SystemSpec, PaySpec

(* Whatever happens to a payment or a subscription is to Peers a change of *)
(* the users it finds subscribed, or nothing; and the end of the process   *)
(* is one to both.  So all that is proved of Peers, with subscriptions that*)
(* come and go as they like, is true where they come from payments.        *)
THEOREM SystemRunsPeers == SystemSpec => Peers!Spec
<1>1. SystemInit => Peers!Init
  BY DEF SystemInit
<1>2. [SystemNext]_systemVars => [Peers!Next]_(Peers!vars)
  <2> SUFFICES ASSUME [SystemNext]_systemVars PROVE [Peers!Next]_(Peers!vars)
    OBVIOUS
  <2>1. CASE PeersMove
    BY <2>1 DEF PeersMove, Peers!Next, Peers!EnvStep, Peers!Requests
  <2>2. CASE PaymentsMove
    <3>1. UNCHANGED peerVars /\ Subscribers' \in SUBSET Users
      BY <2>2 DEF PaymentsMove, Subscribers
    <3>2. Peers!SubscriptionsChange
      BY <3>1, SystemAssumption
      DEF Peers!SubscriptionsChange, Peers!agentVars, Peers!panelVars, peerVars
    <3> QED BY <3>2 DEF Peers!Next, Peers!EnvStep
  <2>3. CASE ProcessEnds
    BY <2>3 DEF ProcessEnds, Peers!Next, Peers!EnvStep
  <2>4. CASE UNCHANGED systemVars
    <3>1. UNCHANGED <<vars, peerVars>>
      BY <2>4 DEF systemVars
    <3>2. Subscribers' = Subscribers
      BY <3>1 DEF Subscribers, getActive, Live, vars, subVars
    <3> QED BY <3>1, <3>2 DEF Peers!vars, Peers!agentVars, Peers!panelVars, Peers!envVars, peerVars
  <2> QED BY <2>1, <2>2, <2>3, <2>4 DEF SystemNext
<1> QED BY <1>1, <1>2, PTL DEF SystemSpec, Peers!Spec

-----------------------------------------------------------------------------
(* What a step of Peers does to the users of rows and requests.  Rows and  *)
(* requests stay records; a request gets past getActive for a user with a  *)
(* subscription and goes on for the same user; and a row is stored for the *)
(* user of such a request.                                                 *)
Getting == Peers!CreatePcs \ {"getActive"}

RequestsShaped ==
  /\ req = [r \in Clients |-> req[r]]
  /\ \A r \in Clients : {"pc", "user"} \subseteq DOMAIN req[r]

RowsShaped ==
  /\ rows = [k \in Keys |-> rows[k]]
  /\ \A k \in Keys : "user" \in DOMAIN rows[k]

RequestsFrame ==
  /\ RequestsShaped'
  /\ \A r \in Clients : req'[r].pc \in Getting =>
       \/ req'[r].user \in Subscribers
       \/ req[r].pc \in Getting /\ req'[r].user = req[r].user

RowsFrame ==
  /\ RowsShaped'
  /\ \A k \in Keys :
       \/ rows'[k].user = rows[k].user
       \/ \E r \in Clients : req[r].pc \in Getting /\ rows'[k].user = req[r].user

(* The ways a request moves.                                               *)
LEMMA RequestGoes ==
  ASSUME RequestsShaped, NEW r \in Clients, NEW pc, Peers!Goto(r, pc),
         pc \in Getting => req[r].pc \in Getting \/ req[r].user \in Subscribers
  PROVE  RequestsFrame
BY DEF RequestsShaped, RequestsFrame, Peers!Goto

LEMMA RequestEnds ==
  ASSUME RequestsShaped, NEW r \in Clients, Peers!Finish(r)
  PROVE  RequestsFrame
BY DEF RequestsShaped, RequestsFrame, Peers!Finish, Peers!Idle, Getting, Peers!CreatePcs

LEMMA RequestBegins ==
  ASSUME RequestsShaped, NEW r \in Clients, Peers!Begin(r)
  PROVE  RequestsFrame /\ rows' = rows
<1> USE DEF RequestsShaped, RequestsFrame, Peers!Idle, Getting, Peers!CreatePcs
<1>1. ASSUME NEW u \in Users, NEW s \in Servers, Peers!BeginCreate(r, u, s)
      PROVE  RequestsFrame /\ rows' = rows
  BY <1>1 DEF Peers!BeginCreate
<1>2. ASSUME NEW u \in Users, NEW k \in Keys, Peers!BeginRecreate(r, u, k)
      PROVE  RequestsFrame /\ rows' = rows
  BY <1>2 DEF Peers!BeginRecreate
<1>3. ASSUME NEW u \in Users, NEW k \in Keys, Peers!BeginRevoke(r, u, k)
      PROVE  RequestsFrame /\ rows' = rows
  BY <1>3 DEF Peers!BeginRevoke
<1>4. ASSUME NEW k \in Keys, Peers!BeginAdminDelete(r, k)
      PROVE  RequestsFrame /\ rows' = rows
  BY <1>4 DEF Peers!BeginAdminDelete
<1> QED BY <1>1, <1>2, <1>3, <1>4 DEF Peers!Begin

(* The reads, and the answers of the agents, move a request or end it.     *)
LEMMA RequestMoves ==
  ASSUME RequestsShaped, NEW r \in Clients, Peers!RequestStep(r),
         ~Peers!Insert(r), ~Peers!MarkRevoked(r), ~Peers!DeleteRow(r)
  PROVE  RequestsFrame /\ rows' = rows
<1> USE DEF Getting, Peers!CreatePcs
<1>1. CASE Peers!GetActive(r)
  <2>1. /\ rows' = rows
        /\ IF req[r].user \in Subscribers
             THEN Peers!Goto(r, "countPeers") ELSE Peers!Finish(r)
    BY <1>1 DEF Peers!GetActive, Peers!Check
  <2> QED BY <2>1, RequestGoes, RequestEnds
<1>2. CASE Peers!CountPeers(r)
  <2>1. /\ rows' = rows /\ req[r].pc = "countPeers"
        /\ Peers!Finish(r) \/ Peers!Goto(r, "findServer")
    BY <1>2 DEF Peers!CountPeers, Peers!Check, Peers!At
  <2> QED BY <2>1, RequestGoes, RequestEnds
<1>3. CASE Peers!FindServer(r)
  <2>1. /\ rows' = rows /\ req[r].pc = "findServer"
        /\ Peers!Finish(r) \/ Peers!Goto(r, "findPeers")
    BY <1>3 DEF Peers!FindServer, Peers!Check, Peers!At
  <2> QED BY <2>1, RequestGoes, RequestEnds
<1>4. CASE Peers!LoadOwned(r)
  <2>1. /\ rows' = rows /\ req[r].pc = "loadOwned"
        /\ Peers!Finish(r) \/ Peers!Goto(r, "findNode")
    BY <1>4 DEF Peers!LoadOwned, Peers!Check, Peers!At
  <2> QED BY <2>1, RequestGoes, RequestEnds
<1>5. CASE Peers!FindPeers(r)
  <2>1. PICK k, ip : /\ req[r].pc = "findPeers" /\ rows' = rows
                     /\ req' = [req EXCEPT ![r].pc = "adding", ![r].key = k, ![r].ip = ip]
    BY <1>5 DEF Peers!FindPeers, Peers!At
  <2> QED BY <2>1 DEF RequestsShaped, RequestsFrame
<1>6. CASE Peers!FindPeersThrows(r) \/ Peers!AddPeerFails(r)
  BY <1>6, RequestEnds DEF Peers!FindPeersThrows, Peers!AddPeerFails
<1>7. CASE Peers!AddPeerOk(r)
  BY <1>7, RequestGoes DEF Peers!AddPeerOk, Peers!At
<1>8. CASE Peers!FindNode(r)
  BY <1>8, RequestGoes DEF Peers!FindNode
<1>9. CASE Peers!RemovePeerReturns(r)
  BY <1>9, RequestGoes DEF Peers!RemovePeerReturns
<1>10. CASE Peers!Timeout(r)
  BY <1>10, RequestGoes, RequestEnds DEF Peers!Timeout
<1> QED BY <1>1, <1>2, <1>3, <1>4, <1>5, <1>6, <1>7, <1>8, <1>9, <1>10 DEF Peers!RequestStep

LEMMA Closing ==
  ASSUME NEW row, "user" \in DOMAIN row
  PROVE  /\ Peers!Revoked(row).user = row.user /\ "user" \in DOMAIN Peers!Revoked(row)
         /\ Peers!Deleted(row).user = row.user /\ "user" \in DOMAIN Peers!Deleted(row)
BY DEF Peers!Revoked, Peers!Deleted

LEMMA RequestStores ==
  ASSUME RequestsShaped, RowsShaped, NEW r \in Clients,
         Peers!Insert(r) \/ Peers!MarkRevoked(r) \/ Peers!DeleteRow(r)
  PROVE  RequestsFrame /\ RowsFrame
<1>1. CASE Peers!Insert(r)
  <2>1. /\ Peers!Finish(r) \/ Peers!Goto(r, "loadOwned")
        /\ req[r].pc = "inserting"
        /\ rows' = rows \/ rows' = [rows EXCEPT ![req[r].key] = Peers!NewRow(r)]
    BY <1>1 DEF Peers!Insert, Peers!At
  <2>2. RequestsFrame
    BY <2>1, RequestGoes, RequestEnds DEF Getting, Peers!CreatePcs
  <2> QED BY <2>1, <2>2 DEF RowsShaped, RowsFrame, Peers!NewRow, Getting, Peers!CreatePcs
<1>2. CASE Peers!MarkRevoked(r)
  <2>1. /\ Peers!Finish(r)
        /\ \/ rows' = rows
           \/ rows' = [rows EXCEPT ![req[r].peer] = Peers!Revoked(@)]
    BY <1>2 DEF Peers!MarkRevoked
  <2> QED BY <2>1, RequestEnds, Closing DEF RowsShaped, RowsFrame
<1>3. CASE Peers!DeleteRow(r)
  <2>1. /\ Peers!Finish(r)
        /\ \/ rows' = rows
           \/ rows' = [rows EXCEPT ![req[r].peer] = Peers!Deleted(@)]
    BY <1>3 DEF Peers!DeleteRow
  <2> QED BY <2>1, RequestEnds, Closing DEF RowsShaped, RowsFrame
<1> QED BY <1>1, <1>2, <1>3

(* What is not a request's step, and leaves the requests or ends them all. *)
LEMMA OthersLeaveUsers ==
  ASSUME RequestsShaped, RowsShaped,
         \/ Peers!AgentNext \/ Peers!PanelCrash \/ UNCHANGED <<rows, req>>
         \/ \E s \in Servers : Peers!HealthChanges(s) \/ Peers!ServerDeleted(s)
  PROVE  RequestsFrame /\ RowsFrame
<1>1. CASE \/ Peers!AgentNext \/ UNCHANGED <<rows, req>>
           \/ \E s \in Servers : Peers!HealthChanges(s)
  BY <1>1 DEF Peers!AgentNext, Peers!HealthChanges, Peers!panelVars,
              RequestsShaped, RequestsFrame, RowsShaped, RowsFrame
<1>2. CASE Peers!PanelCrash
  BY <1>2 DEF Peers!PanelCrash, Peers!Requests, Peers!Idle, Getting, Peers!CreatePcs,
              RequestsShaped, RequestsFrame, RowsShaped, RowsFrame
<1>3. ASSUME NEW s \in Servers, Peers!ServerDeleted(s)
      PROVE  RequestsFrame /\ RowsFrame
  BY <1>3 DEF Peers!ServerDeleted, Peers!Deleted,
              RequestsShaped, RequestsFrame, RowsShaped, RowsFrame
<1> QED BY <1>1, <1>2, <1>3

-----------------------------------------------------------------------------
(* Who is granted a payment stays so.                                      *)
Granted(u) == \E p \in Payments : Payer[p] = u /\ given[p] > 0

LEMMA GrantsStay ==
  ASSUME LinkInv, [PayNext]_vars, NEW u, Granted(u)
  PROVE  Granted(u)'
<1>1. PayTyped
  BY DEF LinkInv, PayInv
<1>2. \A p \in Payments : given[p] > 0 => given'[p] > 0
  <2>1. CASE given' = given
    BY <2>1
  <2>2. CASE \E h \in Handlers : given' = [given EXCEPT ![handler[h].payment] = @ + 1]
    BY <1>1, <2>2 DEF PayTyped
  <2>3. PayNext => \/ given' = given
                   \/ \E h \in Handlers : GrantStep(h)
    BY DEF PayNext, HandlerStep, Request, Checkout, CreatePayment, CreatePaymentFails,
           StoreTxnId, Settle, Webhook, WebhookIgnored, MarkFailed, MarkSucceededRead,
           MarkManuallyPaid, MarkPaid, Crash, Around, payVars
  <2> QED BY <2>1, <2>2, <2>3 DEF GrantStep, vars, payVars
<1> QED BY <1>2 DEF Granted

(* The users of rows, and of requests past getActive, have paid: more than *)
(* that they have a subscription, which may have ended since.              *)
UsersHavePaid ==
  /\ \A r \in Clients : req[r].pc \in Getting /\ req[r].user \in Users => Granted(req[r].user)
  /\ \A k \in Keys : rows[k].user \in Users => Granted(rows[k].user)

ServiceInv == LinkInv /\ RequestsShaped /\ RowsShaped /\ UsersHavePaid

LEMMA InitService == SystemInit => ServiceInv
<1> SUFFICES ASSUME SystemInit PROVE ServiceInv
  OBVIOUS
<1>1. /\ LinkInv
      /\ rows = [k \in Keys |-> Peers!NoRow]
      /\ req = [r \in Clients |-> Peers!Idle]
  BY InitLinks DEF SystemInit, Peers!Init, Peers!Requests
<1>2. RequestsShaped /\ RowsShaped
  BY <1>1 DEF RequestsShaped, RowsShaped, Peers!NoRow, Peers!Idle
<1>3. UsersHavePaid
  BY <1>1, SubscriptionsAssumption
  DEF UsersHavePaid, Peers!NoRow, Peers!Idle, Getting, Peers!CreatePcs
<1> QED BY <1>1, <1>2, <1>3 DEF ServiceInv

LEMMA FramesKeepUsers ==
  ASSUME ServiceInv, LinkInv', RequestsFrame, RowsFrame,
         \A u : Granted(u) => Granted(u)'
  PROVE  ServiceInv'
<1>1. \A u \in Users : u \in Subscribers => Granted(u)
  BY SubscribersAreGranted DEF ServiceInv, Subscribers, Granted
<1>2. UsersHavePaid'
  <2> SUFFICES /\ \A r \in Clients : req'[r].pc \in Getting /\ req'[r].user \in Users
                                       => Granted(req'[r].user)
               /\ \A k \in Keys : rows'[k].user \in Users => Granted(rows'[k].user)
    BY DEF UsersHavePaid, Getting
  <2> QED BY <1>1 DEF ServiceInv, UsersHavePaid, RequestsFrame, RowsFrame
<1> QED BY <1>2 DEF ServiceInv, RequestsFrame, RowsFrame

LEMMA ServiceStep == ServiceInv /\ [SystemNext]_systemVars => ServiceInv'
<1> SUFFICES ASSUME ServiceInv, [SystemNext]_systemVars PROVE ServiceInv'
  OBVIOUS
<1>1. [PayNext]_vars
  BY StepPays DEF systemVars
<1>2. LinkInv' /\ \A u : Granted(u) => Granted(u)'
  BY <1>1, LinkStep, GrantsStay DEF ServiceInv
<1>3. RequestsFrame /\ RowsFrame
  <2> USE DEF ServiceInv
  <2>1. CASE PeersMove
    <3>1. ASSUME rows' = rows PROVE RowsFrame
      BY <3>1 DEF RowsShaped, RowsFrame
    <3>2. ASSUME NEW r \in Clients, Peers!Begin(r) \/ Peers!RequestStep(r)
          PROVE  RequestsFrame /\ RowsFrame
      BY <3>1, <3>2, RequestBegins, RequestMoves, RequestStores
    <3> QED BY <2>1, <3>2, OthersLeaveUsers DEF PeersMove
  <2>2. CASE PaymentsMove \/ ProcessEnds \/ UNCHANGED systemVars
    BY <2>2, OthersLeaveUsers DEF PaymentsMove, ProcessEnds, peerVars, systemVars
  <2> QED BY <2>1, <2>2 DEF SystemNext
<1> QED BY <1>2, <1>3, FramesKeepUsers

(* Whoever has a subscription, a peer, or a request that will give him one *)
(* has paid, however requests, payments, the sweep, deletions and the end  *)
(* of the process interleave and although nothing is asked again.          *)
THEOREM ServiceIsPaid == SystemSpec => []ServiceIsPaidFor
<1>1. ServiceInv => ServiceIsPaidFor
  <2> SUFFICES ASSUME ServiceInv, NEW u \in Users,
                      \/ u \in Subscribers
                      \/ GettingPeer(u)
                      \/ \E k \in Keys : rows[k].user = u
               PROVE  PaidFor(u)
    BY DEF ServiceIsPaidFor
  <2>1. Granted(u)
    BY SubscribersAreGranted
    DEF ServiceInv, UsersHavePaid, GettingPeer, Getting, Granted, Subscribers
  <2> QED BY <2>1 DEF Granted, PaidFor, ServiceInv, LinkInv, PayInv, NothingForFree
<1> QED BY <1>1, InitService, ServiceStep, PTL DEF SystemSpec
===============================================================================
