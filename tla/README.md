# AximaVPN in TLA+

Models of the AximaVPN panel (`apps/api`), the agent on its WireGuard nodes
(`apps/agent`), the browser's side of sessions and of the admin console
(`apps/web`) and the money that pays for it, with TLC configurations and TLAPS
proofs.  Paths below are relative to the repository.

- [Inventory](#inventory): the system, its parts and their hazards
- [Modules](#modules): what models what
- [Runs](#runs), with bounds and fairness; [disagreements](#disagreements) between comments and code
- [Proofs](#proofs)
- [Not modelled](#not-modelled) and [plan](#plan)

## Inventory

The panel is one NestJS process over PostgreSQL.  Its requests run
concurrently: everything between two `await`s is atomic, and every `await` is a
point where any other request, the scheduler, or the database may intervene.
There are no locks and, but for publishing a route list, no transactions that
span statements.  What keeps the data straight is the order of the statements, a few
unique indexes and foreign keys, and luck.  Agents run on the nodes and are
called over HTTP with a timeout of 15 s; they, too, run their handlers
concurrently, one command after the other.

| component | state | operations | talks to |
|---|---|---|---|
| peers (`peers/peers.service.ts`) | `wireguard_peers` rows | create, recreate, revoke, adminDelete; reads for .conf and QR | subscriptions (getActive), agents (before the database), ip-alloc |
| agent (`agent/src/index.ts`) | kernel peers, `wg0.conf` | POST /peers, DELETE /peers/:key, POST /restart, status, target check, heartbeat every minute | panel |
| agent gateway | none; calls in flight | addPeer, removePeer, restart, getStatus, targetCheck | agents |
| ip allocation (`common/ip-alloc.util.ts`) | none | parseCidr, nextFreeIp, poolCapacity | - |
| subscriptions | `subscriptions` rows | getActive, grantOrExtend, expireDue; cancel (no caller) | called by payments, users, scheduler |
| payments | `payments` rows | checkout, webhook, mark-paid | provider, subscriptions |
| payment providers | the gateway's transactions | createPayment, handleWebhook | gateway |
| servers | `vpn_servers` rows | create, update, register, heartbeat, remove, restartWg; countries | agents, provisioning |
| provisioning, install script | provision status and log; the node's files | start/run over SSH; the bootstrap script | servers, node |
| health | health checks, server status | checkServer every 5 min, watchdog every 10 min, hourly sweep, reminders | agents, servers, Telegram, subscriptions |
| routes | groups, versions, entries | resolveAndPublish, edits; a scheduler that does nothing | DNS, peers (`needsUpdate`) |
| cidr utilities | none | parse, sanitize, aggregate, exclude | routes |
| auth, users | users, refresh tokens | register, login, refresh, logout; block, unblock, grant | web client |
| tariffs, countries, audit, admin billing | their rows | create, update, archive, delete; the seed of every deployment | - |
| web client (`apps/web/lib`) | tokens in local storage | fetch, refresh on 401, sign in and out | auth |
| web pages (`apps/web/app`) | what they last loaded; the servers page's log and its interval; the configs page's form and list | buttons, polls of the log, reloads | API |

What is hard, and what would be right:

- **Peers.** A create reads (subscription, device count, server, capacity and
  addresses), then calls the agent, then inserts.  Everything read may be stale
  at the insert, the call may time out and take effect later, the insert may fail
  when the node already has the peer.  Right: one peer per address, limits kept,
  nodes that serve what the panel recorded, no peer lost by a recreate, every
  request ends.
- **Agent.** `wg set` moves an address to its new peer silently; `wg-quick save`
  is a second command, so saves overlap; the file is what a restart loads.
  Right: the file follows the kernel, and a restart loses nobody.
- **Subscriptions.** `grantOrExtend` reads and then writes; the sweep may come
  in between.  Right: every grant adds its days once, a user has one live
  subscription, EXPIRED means over.
- **Payments.** Notifications are repeated and may overlap, anybody may send one, and
  one may name a payment and the transaction of another; admins mark payments as paid; the
  status and the grant are two steps.  Right: paid exactly once is granted exactly
  once, and unpaid never, which is true only as far as the body of a
  notification is (see [disagreements](#disagreements)).
- **Servers and health.** Heartbeats, health checks, the watchdog and the
  registration write one status column, each from what it read before.  Right:
  only a server that has registered is offered, a live one becomes ACTIVE
  again, a silent one is noticed.
- **Provisioning.** A run talks to a VPS for minutes while its row may be
  registered, deleted or taken by another run; the script registers by itself
  and its answer may be lost; output is stored by writes nobody awaits.  Right:
  what is shown as installed has registered, what is shown as running runs.
- **Auth and web client.** Rotation reads and then revokes; blocking races
  logins; two 401s refresh at once, and each stores or clears whatever pair is
  there.  Right: a refresh token is used once or at most as often as requests
  overlap, a blocked user gets no new tokens, a session survives concurrent
  requests.
- **Routes and CIDRs.** A publisher reads groups and the current version, waits for
  name servers, and writes; others publish and edit meanwhile; ranges reach the top
  of the address space.  Right: a working list is not emptied or brought
  back, versions count up, ranges cover what they should with the fewest blocks.
- **Catalogue and audit.** A country is checked and then deleted, and deleting
  it takes it out of allow-lists by cascade: an allow-list that becomes empty
  allows every country (peers.service.ts:62-66).  Pages send switches from rows
  that are out of date; the audit record follows the change.  Right: an admin's
  last word on a switch counts, restrictions do not vanish.
- **The servers page.** Intervals and polls outlive the log they were for.
  Right: no interval is lost, polling ends.
- **The configs page.** Creates, recreates and revocations overlap, each reloads the
  whole list, and answers come in any order; the choice of servers is asked for
  again whenever the country changes.  Right: a config that was made is shown when
  the form is free again, and the form sends a server it offers.

`PROJECT.json` lists each hazard at its line with the properties that watch it.

## Modules

| module | models |
|---|---|
| `IpPool` | `ip-alloc.util.ts`: addresses are the integers `ipToInt` makes; `nextFreeIp` in one step |
| `IpAlloc` | the loop of `nextFreeIp`, step by step, against `IpPool!nextFreeIp` |
| `NodeAgent` | nodes (kernel table, file), agents' handlers, the panel's calls in flight |
| `Peers` | `PeersService`, composed with `NodeAgent` and `IpPool` |
| `Leases` | abstract: a ledger of addresses, each leased to one key at a time; `Peers` implements it |
| `Entitlement` | abstract: access ends at `until[u]`, which a grant moves by `Days` |
| `Subscriptions` | `SubscriptionsService` and the sweep; implements `Entitlement` when grants are prompt and one at a time |
| `Payments` | `PaymentsService` and the gateway, composed with `Subscriptions` |
| `Servers` | `vpn_servers` rows and their nodes: `ServersService`, `HealthService`, the watchdog, heartbeats |
| `Provisioning` | `SshProvisionerService`, the bootstrap script and its registration, composed with `Servers` |
| `Auth` | `AuthService` and `UsersService.setStatus`: users, refresh tokens, the requests that check, rotate, issue and revoke them |
| `WebSession` | a browser's token store, its calls, sign-in and sign-out, composed with `Auth` |
| `System` | `Payments` and `Peers` in one process: whom Peers finds subscribed is what `Subscriptions` holds then |
| `Cidr` | `cidr.util.ts`: sanitize, aggregate, exclude, and what they should return as sets of addresses |
| `RouteLists` | what is claimed of the lists of blocks, for routes made of the arguments of `IpAlloc` |
| `Routes` | `RoutesService`: groups, the current version, publishers; the seed's groups |
| `Catalogue` | tariffs and countries with the audit record, the country of a server, the pages that call |
| `ServersPage` | `admin/page.tsx`: the live log, its intervals and polls, leaving the page |
| `ConfigsPage` | `dashboard/configs/page.tsx`: the form, the list, the buttons of its cards, and the answers to them |
| `*Proofs` | theorems about the module of that name; `IpAllocProofs` about `Cidr` and `RouteLists` too, `PaymentsProofs` about `Subscriptions`, `SessionProofs` about `Auth`, `WebSession` and `ConfigsPage`, `ConsoleProofs` about `Routes`, `Catalogue` and `ServersPage` |
| `MC*` | constants and symmetry for TLC |

**NodeAgent.**  `routes[s][a]` is the key the kernel of node s routes address a
to, `conf[s]` the same in `wg0.conf`.  A call is a record that goes `sent` ->
`set` (after `wg set`) -> `saving` (wg-quick save has dumped the table) -> `ok`
(and renamed it over the file), or to `error`.  Dump and rename are two steps,
as they are in `wg-quick`.  A caller that gives up leaves its call to `Nobody`
and the agent goes on: so do a timeout and a connection that breaks before the answer, which
are the same to the panel (an error) and to the agent (event `timeout`).  A lost call is one
that no agent carries out any further: no connection, or an agent that dies.  `Faults` selects lost calls, failing commands, failing
saves (which the agent ignores), restarts of WireGuard and reinstalls.  A key that
has lost its address is still a peer of the interface but serves nothing, so
the routing table is all the state there is.

**Peers.**  A request is a record `req[r]` with a program counter, one action
per `await`: getActive, countPeers, findServer, findPeers (with the address, the
keys and the sending of the call, which follow without an await), adding,
inserting; loadOwned, findNode, removing, closing.  Reads that come first in a
handler (getActive of create, loadOwned of the others) are guards of `Begin*`: a
request they turn away changes nothing.  A row is identified by its public key,
and `DELETED` rows stand for rows that are gone.  `recreate` is create and then
revoke in one request, as in the code.  `Events` selects timeouts, restarts of the
panel, expiry, health changes, deleted servers and deletes by admins, which are
what other parts of the system do to the tables peers reads.  In the ledger of
`Leases` a lease is an ACTIVE row, with its user, server and address, and a key that
ever had a row is used.  Who is subscribed is a variable that other code changes
(`SubscriptionsChange`): by itself the module lets any set of users be subscribed at
first and, under the event `expire`, become subscribed or cease to be at any time.

**Subscriptions.**  Time is a counter whose unit is a day or an hour, as one
likes: `Days` units are a tariff's duration.  `durationDays` given by an admin is
one more duration and is left out, as is the tariff id that an extension overwrites.
A grant is a record `grants[c]`: reading, then writing what it has computed.
`granted[u]` counts the grants written: it is history and no action reads it
except to bound the model.  `Prompt` says that no time passes during a grant.

**Payments.**  `txn[p]` is the gateway's transaction (none, pending, succeeded,
canceled), `known` the payments whose `providerTxnId` is stored, `acked` those whose
outcome the gateway has announced and was answered with a 200.  A handler is
a record with a program counter; its grant is the grant of the caller of the
same name in `Subscriptions`.  A checkout creates the row, then the transaction,
then stores its id, then settles the payment if the transaction came back settled
(event `settles`: the mock).  `Bodies` are the notifications that may reach the
webhook, which is public: each names a transaction (`object`, as the payment it was
created for) and a payment (`paymentId`, or Null).  `Webhook(h, b, p)` fetches the status of
b's transaction and applies it to the payment p that `findByTxnOrId` finds, by
`paymentId` when there is one; nothing in the code compares the two, and nothing does here.
`Own(p)` is what the gateway itself sends about p, with the metadata that createPayment
put there; only that sets `acked`.  What is fetched is final, so the fetch and the
search are one step; a notification for a pending transaction is ignored and
changes nothing.  `given[p]` counts the grants written for p.  `SeenPaid(p)` and
`SeenCanceled(p)` say that some notification leads to p and names a transaction with that
outcome, `Contested(p)` that there are both: what the webhook makes sure of, and no more.
A crash during createPayment that leaves a transaction behind is
`CreatePaymentFails`.

**System.**  `Peers` is an INSTANCE in which `subscribed` is the set of users for
whom `getActive` finds a row in the table of `Payments`: a create asks once, and a
subscription may end while the request is at an agent.  A step is one of Peers, one of
Payments, or the end of the process (`ProcessEnds`), which loses every request of both at
once, while gateway, agents and nodes go on.  `ended` counts these.  Subscriptions that
admins give away are left out here, or not everybody would have paid.

**Servers.**  `row[s]` is what the code decides by: status, whether the install
token and the server's key are set, whether the last heartbeat is older than
ten minutes (`beat`), the provision status.  `node[s]` is whether the agent runs
and what a check sees of the network.  A task `task[t]` is a heartbeat, a
check, a run of the watchdog or a registration between two `await`s, with the status
it has read (`seen`): heartbeats and checks write by that.  checkAll and the
watchdog go through the servers they have listed (`todo`) one by one, in any
order; a check skips a server that is gone, the watchdog's run ends with an
exception.  `update` could write a status, but its input schema has none
(`createServerSchema.partial()`), and nothing else writes DISABLED or MAINTENANCE,
so these two are left out.

**Provisioning.**  `install[i]` is a run of the provisioner or of the script alone,
when an admin has pasted it.  starting, loaded and connecting are the provisioner's;
running, calling and waiting the script's; succeeding and failing the
provisioner's again.  Writes to a deleted row throw, in `run` and again in its
`catch`, and end it without a verdict.  While the script runs, a write of its
output to a deleted row is rejected with nobody to handle it, which ends Node:
`OutputUnhandled`.  After a restart of the panel scripts go on (`by = "admin"`) or
are cut off with their connection.  An SSH connection that drops by itself ends the script;
one that leaves it running shows nothing that a lost answer does not show.
`restarted` is history, read only to bound the crashes and in `RunningIsRunning`.

**Auth.**  A token is the pair issued together: `token[t]` is the row of its refresh
token, `access` holds those whose access token has not run out.  A row that is
missing, run out or revoked by a block is `dead`: nothing tells these apart.  A
handler `h[c]` waits for its next statement; everything a request decides by
what it read at once is in `Begin*`.  A pair that nobody holds and that works no more
may be issued again, so a few tokens serve any number of sign-ins.  `late[u]` counts
the pairs issued since u was blocked, `told[u]` says that a block has revoked his
tokens, and `uses` how often a token was rotated: history that no guard reads.
`HandlerFails` is a statement that throws, anywhere.

**WebSession.**  `store` is local storage, `w[c]` a call of the browser, which talks to
the handler of the same name.  A 401 refreshes with the pair that is stored by
then, once; the call sent again, and its answer, do not touch the session any more.
The guard looks at the access token only, so a blocked user's requests pass
until it has run out: the code, not an abstraction.  A sign-out clears the store and
sends the token off (`SignOut`); the panel revokes it when the request arrives (`LogoutArrives`),
which it need not (`LogoutLost`), and what it answers is ignored.  `lost` is history: the stored pair's refresh may
have happened, and the answer was lost.

**Cidr.**  A block is its first and last address; of a list whose order the code
sorts away, the set.  The loop of `rangeToCidrs` is a recursive function that may step past
the last address, where the code breaks off at 2^32; that of `toMergedRanges` goes
through the addresses in order and takes what starts there, which is what sorting is for.

**Routes.**  `pub[p]` is a run of `resolveAndPublish` with what it has read: the
enabled groups, then the current version, then what each group resolves to, any
set of blocks or, when the name servers fail, none.  The unique index on
the version stops a publisher that another overtook (`Unique`).  Publishing flags peers
for an update by `NOT: { routeListVersionId }` (routes.service.ts:124-127): as
nothing ever sets that column, and SQL's NOT is not true of NULL, it flags
none, and the module leaves it out.  Disabling the last enabled group leaves its
routes published: the resolved list is empty, and an empty list replaces nothing.

**Catalogue.**  `do[a]` is the request of a tab: a statement, then the record.
`Toggle` sends what it makes of the rows the page shows, which are any rows there may
have been.  The tables of the seed are there from the start.  A later deployment
brings back default countries that were removed (`seedCountry`); it also writes
names and domains over what admins changed, which no property looks at.

**ServersPage.**  `interval[i]` is the server that an interval of the browser polls,
`pollRef` the one the page remembers, `poll[p]` a poll under way with its answer.  The panel's
run of an installation is reduced to the status it writes.

**ConfigsPage.**  A change `change[q]` is a create, a recreate, a revoke or the first load:
posted, acted on by the panel, reloading the list, and listed, when its answer
replaces what is shown; `awaited` says that the page it was made on has not
been left since.  `ask[k]` is a call of listAvailable for a country.  The answer of
a call is what the panel has when it answers, which may be long before the page sees
it.  Other tabs, admins and health checks change configs and servers meanwhile.

Mutants - operators that a comment introduces as such - stand in each module
before the definition they would replace.  No action uses them.  They show
that each property fails when the code has a certain bug.

## Runs

`tlc -config X.cfg M` with M the module in `PROJECT.json`.  Deadlock checking is
off in all of them: a bounded instance stops when its keys, grants and time are used
up, and a service at rest has nothing to do.  That requests do not get stuck is what
`RequestsEnd` checks.

| run | instance | shows |
|---|---|---|
| MCPeersFaults | 2 requests, 1 node, 1 user, 2 keys; lost calls, failing commands and saves, timeouts, restarts, reinstalls, panel crashes | the refinement KeepsLedger; AddressHeldIffActive, RecreateStoresFirst, RouteMatchesRow |
| MCAddresses | Peers (2 requests, 1 user, 4 keys, limit 1, no faults), IpAlloc and RouteLists (3-bit addresses, /0 to /3) | DeviceLimitExcess, RevokedOffNode; LoopCorrect, CapacityExact for every server address and set of used addresses; AggregateMinimal, ExcludeExact for the lists of blocks made of them |
| MCPeersSerial | 1 request, 2 nodes, 3 keys, limit 3, capacity 2; agents that carry out a command and answer, or fail and die (no timeouts, no broken connections), admins, expiry, health, deleted servers | ActivePeersRouted, InsertAccepted |
| MCSession | WebSession (1 user, 2 calls of a browser or an admin, 3 tokens; lost answers and sign-outs, failing statements), ConfigsPage (2 configs, 1 server, 2 changes, 2 calls for servers) | RotationExcess, LateIssueBounded, BlockRevokes, StoredTokenServes; CreatedIsShown |
| MCConsole | Routes (2 groups, 2 publishers), Catalogue (2 countries, 2 codes, 1 tariff, 1 server, 2 tabs), ServersPage (2 servers, 2 intervals, 2 polls, 2 runs), Subscriptions (2 users, 1 grant at a time, prompt) | NeverEmptied, WorkingGroupKept, NoChurn; RestrictionKept, SwitchesMeant; NoIntervalLost, PollingEnds; the refinement KeepsPromise |
| MCPayments | 2 handlers, 2 payments of a user, 3 grants, time passes; crashes, failures; the gateway's notifications, the same without a payment's id, and one that names p2 with the transaction of p1 | NothingForFree, FailedGetsNothing, GrantExcess, NoFreeDays |
| MCPaymentsLive | 2 handlers, 1 payment, notifications with and without its id, admins, fair gateway and sweep, createPayment may fail | ProcessedIsGranted, PaidIsGranted, SweepCatchesUp |
| MCSystem | 1 request, 1 node, 1 key, 1 handler, 2 users with a payment each, a notification that names p2 with the transaction of p1, 1 end of the process; timeouts, agents that may never answer, subscriptions that end, deleted servers | ServiceIsPaidFor, RequestsEnd, RemovalCompletes |
| MCProvisioning | 1 server, 1 installation at a time, 2 tasks; everything that may fail, once a restart of the panel | OfferedIsRegistered, SuccessMeansRegistered, RunningIsRunning, and BeatsRevive, SilenceIsNoticed |

The four parts of MCConsole share no state, nor do the two of MCSession or of MCAddresses: a
call of the configs page that fails for want of a session fails like any other.  Each moves
while the others are in
their initial state, so all its states and steps are met and TLC has the
sum of their states to go through, not the product.  Type invariants are
conjuncts of the invariants that are proved inductive, and theorems for every value
of the constants; no run repeats them.

**Bounds.**  `Keys` bounds the creates of a run (a key is used once), so 2
keys allow a create and a recreate or two creates, 4 allow two of them to meet two
peers; with the one key of MCSystem there is a create and its revocation, but no second key for
a recreate, which the runs of Peers and `ServiceIsPaid` cover.  Two requests suffice for a race of two; the proofs cover any number.
Three host addresses, one of them the server's, leave two to lease: a collision and a
used up pool both happen.  `MaxAbandoned` bounds calls whose caller has given up.
`MaxTime` and `MaxGrants` bound the clock and the grants per user; the table
has a row for each grant that may create one.  Two tasks are a write with another
between its read and itself; overlapping installations, which one slot leaves
out, are covered by the proofs.  Three tokens are one in the store, one issued to each
of two calls; `Room` lets a call begin only while a pair is left that it may need.
Two calls are a race of two refreshes, of a refresh and a sign-out, of a sign-in and a
block; the proofs cover any number.  In MCConsole three versions are enough for a
publisher that read none, or one, to be late by one or two; `MaxUnrecorded` bounds
the records lost, `MaxRuns` the runs started, polls and intervals those of one
browser: one log opened over another while polls of both are under way.  `MaxPending = 2`
lets a change of the configs page begin while another call is under way; a
visit starts two at once, so there are three when a change that an earlier visit left behind
meets a new one.  Symmetry is declared for keys,
requests, rows, tokens and calls, and never in a run with a liveness property.

**Fairness.**  `System!FairSystemSpec`: weak fairness of each request's next step, which
Node's event loop gives to handlers that can run, and the axios timeout to those
that wait; none for agents, for payments or for the end of the process.  `MaxAbandoned`
is large enough there that it never disables the timeout.
`Payments!FairPaySpec`: weak fairness of handlers and of
the hourly sweep, and strong fairness of
the webhook of the gateway's own notification of an outcome that was not yet answered
with a 200 - the gateway repeats its notification, and in between handlers may be busy.  The bound on
grants does not interfere: it is reached only after the payment was granted.  It is
checked without crashes (which lose grants, see below) and without failures of
the fetch (which are answered with a 200, so the gateway stops).
`Provisioning!FairSpec`: weak fairness of each task's next step and of a silent
node's heartbeat growing old, strong fairness of beginning a live agent's heartbeat
and the watchdog: both are timers that fire whatever else goes on, and only the
model's limited tasks ever stand in their way.  Nothing makes an agent, an
installation or a check begin, a node recover, or a check succeed.
`ServersPage!PageFairness`: a run of the provisioner marks its server and ends (its
SSH commands have timeouts), intervals tick, and of the polls that are sent some
are answered, not all lost.  Nothing makes an admin close a log or leave the
page: `PollingEnds` holds without it.

## Disagreements

Three runs find what a comment says violated:

| run | comment | what happens |
|---|---|---|
| PaymentsDuplicate | "Idempotently mark a payment succeeded" (payments.service.ts:81) | two notifications at once both grant |
| PaymentsCrossed | "Re-fetch the payment to avoid trusting the unsigned notification body." (yookassa.provider.ts:74, cf. 18-20) | what is fetched is the outcome of the transaction that the body names; the payment is still the one that the body names (line 78, payments.service.ts:140), and nothing compares them: a paid transaction named with another payment makes that SUCCEEDED, a canceled one makes it FAILED |
| ServersFlapping | "Agent unreachable — covered by `reachable` flag below." (health.service.ts:42) | the flag is about the SSH port: the check of a server with a dead agent is healthy and puts it back to ACTIVE, the watchdog flags it, for ever |

More are a change of a configuration away.  Each line names a property, the
configuration to start from, what to change besides the property, and what TLC finds:

| property | from | change | finds |
|---|---|---|---|
| ActivePeersRouted | MCAddresses | - | two creates push the same address; the one that is stored may be the one that lost its route, for all that "if it fails, no DB row is created (consistency)" (peers.service.ts:87) |
| DeviceLimitKept | MCAddresses | - | two creates pass the count together, for all that "Enforces ... device limit" (peers.service.ts:40); with one request at a time (MCPeersSerial with `DeviceLimit = 1`) it holds |
| PeersSurviveRestart | MCAddresses | - | overlapping saves leave an older table in the file: "Persist so peers survive a restart." (agent index.ts:65) |
| ServiceNeedsSubscription | MCAddresses | `Clients = {r1}`, `Events = {"expire"}` | peers outlive their subscription, which is the "Single source of truth for 'can use VPN'" (subscriptions.service.ts:9) in create only |
| ActivePeersRouted | MCPeersFaults | `Clients = {r1}`, `Faults = {}`, `Events = {"timeout"}` | an abandoned add executes late and takes the address of a stored peer |
| NoDayLost, OneLive, ExpiredIsOver | MCPayments | - | lost update; two live rows; an extended row that was swept (cf. subscriptions.service.ts:27-28); with prompt grants one at a time none of it happens (`SerialGrantsKeepPromise`, `SerialGrantsOneLive`) |
| GrantedOnce | MCPaymentsLive | `Callers = {h1}` | MANUAL does not count as processed: the next notification, or the next mark, grants again |
| ProcessedIsGranted | MCPayments | - | a crash between status and grant, after which the payment is "already processed" (payments.service.ts:85) |
| FailedCanBeRetried | MCProvisioning | - | the answer to the registration is lost: FAILED, but "If a deploy fails, use Retry" (README.md:118-119) is refused, the token is used up (servers.controller.ts:201) |
| SignedOutStaysOut (a PROPERTY) | MCSession | - | a refresh under way when the user signs out stores its pair afterwards |
| WinnerKeepsPair (a PROPERTY) | MCSession | - | of two refreshes with one pair, the one that is refused clears the pair the other has stored |
| DisabledStaysOut (a PROPERTY) | MCConsole | - | a publisher that read a group before it was disabled publishes it |
| AllRecorded | MCConsole | - | the record fails after the change: "All admin mutations recorded in the audit log" (README.md:144); the endpoint that enables a route group writes none at all |
| LogIsLive | MCConsole | - | a late poll, of another log or from before the run began, stops the interval of a run: "A live log streams in the UI" (README.md:117) |
| ErrorMeansNothing (a PROPERTY) | MCSession | - | the reload after a create fails, and its error is shown for the create's although a config was made |
| GoneStaysOut (a PROPERTY) | MCSession | - | an older reload answers last and shows a config again that was revoked |
| OneInFlight | MCSession | - | a page that is left and opened again knows nothing of the create under way, and sends another |
| OfferedAsChosen (a PROPERTY) | MCSession | - | the answer about the country chosen before arrives last: its servers are offered under the new one |
| ShownIsOpen (a PROPERTY) | MCConsole | - | the late answer of one server's log is shown under another's name |

`NodesMatchPanel` (without faults and with one request at a time, the nodes are
between requests exactly what the panel recorded) holds in MCPeersSerial with
`Faults = {}`, and `CapacityExcess` does there and in MCAddresses.  `OwnPaymentConfirmed`
holds in MCPayments with `Bodies <- UnnamedBodies`.

## Proofs

`tlapm M.tla` for each `*Proofs` module; what TLC checks on an instance,
these hold for every value of the constants that satisfies the modules' assumptions.

- `IpPoolProofs`: `NextFreeIpCorrect`, from the least-number principle
  (derived from well-founded inclusion of intervals).
- `IpAllocProofs`: `LoopComputesNextFreeIp`.  The invariant `LoopInv` adds that
  everything the loop has passed is taken.  `CapacityIsExact` counts: the host
  addresses but the server's are as many as `poolCapacity` says.
  `AggregateIsMinimal` and `ExcludeIsExact` are about every list of blocks and every
  width of an address.  `PowerCounts` counts subsets to get at powers of two; two blocks
  nest or are apart (`BlocksNest`).  The recursive functions are shown to exist, and what
  they compute is followed, by `CountingUp`, an induction over a set of numbers rather than
  over a predicate.  `rangeToCidrs` goes from cut to cut of its range, where a cut
  is an address no block inside goes across: the block it takes at a cut leads to the
  next one, and no largest block lies in between (`RangeStep`), so `RangeIsFewest`.
  The loop of `toMergedRanges` keeps its ranges `Apart`, with a gap between any two
  (`MergedRangesAreApart`); hence the largest blocks of the whole are those of the
  ranges, one list after the other (`RangeByRange`).  That the largest blocks inside a
  set are the fewest that cover it is not a matter of definition: `FewestIsShortest`.
- `PeersProofs`, in five layers.
  1. `TypeInv` (TypeOK, and that the fields a request needs are there when it needs
     them) gives `PeersTypeCorrect`.
  2. `SafeInv` gives `AddressesNeverShared`, `AddressesReleased`, `RecreateKeepsOldPeer`
     and `RoutesMatchRows`.  RouteMatchesRow alone is not inductive: a late command,
     an old dump or a file may bring a key back to the kernel long after.  `RoutesPlaced`
     says of every place a key can come from - kernel, file, dump, command - that
     the key belongs at that address for its row and for the request about to
     store it; `KeysFresh`, that a generated key belongs to one request.  The
     proof sorts steps into three kinds: those that allocate, those that
     store, and those that do neither and create no new claim of a key on an address.
     `PeersKeepLedger` is the refinement of `Leases`: a step that stores begins
     a lease, of a key that never had one (`KeysFresh`) and at an address the
     unique index found free; the others end leases or leave them all alone.
  3. `ExcessInv` gives `DeviceExcessBounded` and `CapacityExcessBounded`: a
     request that passes a check counts itself among the pending, which are at most
     the requests, and an insert turns a pending request into a row.
  4. With one request at a time (`OneRequest`) the address chosen stays free until
     the insert (`AddressReserved`): `SerialInsertsAccepted`.  If besides nobody gives up
     on an answer (`Patient`: no timeout, no restart of the panel) and nodes keep
     their tables (`TablesKept`: no restart of WireGuard, no reinstall), a command
     that has run has left its key in the kernel until the row is
     stored (`AddedIsRouted`): `SerialPeersRouted`.  Both hypotheses are
     needed: the disagreements below show ActivePeersRouted fail without the first,
     and a node that boots from an older file has lost peers.
  5. `RevokedPeersOff` needs no `OneRequest`, but commands that run (`CommandsRun`: none
     is lost, `wg set` does not fail).  `OffInv` follows a removal from
     the command to the row: whoever is about to close a row has had its key taken
     off, and no command can bring it back, as one that adds is for a key that
     has no row yet.
- `PaymentsProofs`.  Of Subscriptions, with one prompt grant at a time (`Serial`),
  `SerialInv` says that what a
  grant has read is still so when it writes; from it `SerialIsSafe`, the
  refinement `SerialGrantsKeepPromise` - a write is a grant of `Entitlement`, the
  clock its tick, all else a stutter - and `SerialGrantsOneLive`.  `NoDaysForNothing` is
  for any number of callers.  The sum over a user's rows is reasoned about as the
  size of a set (`Volume`: one element for each day), so that no induction is needed, once
  `FoldExists` and `FoldIsVolume` have shown that `MapThenSumSet` computes it.
  The sum itself is not inductive: a grant that has read a long row and writes
  after others may shorten it, so what a row lasts says too little about what it
  may yet last.  `Accounts(m)` gives each row a number of days m[s] that bounds both
  the row and, with `Days` more, what any grant in hand would make of it.
  Of Payments, `NothingIsFree` and `FailedIsFinal`, for any notifications: what is granted
  or shown as SUCCEEDED is `SeenPaid`.  Outcomes are final, so that is so
  for good (`SeenStays`), and a handler on its way to a grant has a payment
  that is (`OnTheWay`); a payment without a row has no transaction (`Fresh`), and one
  handler creates it (`OneCreator`).  With the gateway's own notifications alone,
  `SeenPaid(p)` is that p's own transaction succeeded (`OwnBodiesSee`), which is
  `OwnBodiesConfirm`.  `GrantsBounded` counts: handlers that have read a status
  that is not yet processed and what they have granted are together at most the
  handlers, since none starts once the status is written; only a FAILED of a
  payment that is `Contested` undoes that.  With one handler, and the gateway's
  notifications alone, that is `OneHandlerGrantsOnce`.  `ProcessedAreGranted`
  assumes that the process does not end (no "crash"): a payment that is shown as paid and not yet granted
  has a handler on the way (`Served`).  `PaymentsGiveNoDays` and `AccessIsPaid` join
  payments to subscriptions: the steps of payments are steps of `Subscriptions` or
  leave it alone, which keeps `DaysInv`, and `Linked` ties each grant to the payer
  of its handler's payment and each row to a grant.
- `SystemProofs`: the whole is an instance of each of its parts.  `SystemRunsPayments` and
  `SystemRunsPeers` say that a step of the system is a step of the one and of the other,
  or leaves it alone; a payment that gives a subscription or a sweep that ends one is to
  Peers a change of who is subscribed, the end of the process a restart of the
  panel.  So what `PaymentsProofs` and `PeersProofs` show for these specifications, with
  subscriptions that come and go as they like, is true of the composition; the prover
  cannot cite a theorem through an INSTANCE that substitutes an operator for a variable, so
  that last step is this sentence.  `ServiceIsPaid` is about both at once: who has a
  subscription, a peer, or a request that will get him one, has a granted payment of his own
  that is `SeenPaid`.
- `ProvisioningProofs`: `ProvisioningTypeCorrect`, `OfferedAreRegistered`,
  `SuccessIsRegistered` and `RunningHasRun`.  A row never loses its key (`KeysStay`),
  so what a task or a run has read of it stays true as far as they will
  write by it: the invariant says of each of them that the key is there when
  the status it has seen, its list or its next verdict needs it.  Steps are sorted
  by what they do to rows, tasks and installations; all but `MarkRunning` show
  nothing new as running (`NoNewRun`).
- `ConsoleProofs`.  Of Routes, `ListIsNeverEmptied`, `WorkingGroupsAreKept` and `VersionsDiffer` are
  about steps, `RoutesTypeCorrect` about states.  A publisher that was overtaken is refused by the unique index; the
  invariant says of one that was not that `prev` is the current list, and that each
  group it has resolved still has entries if it has any in that list.
  Of Catalogue, `CatalogueTypeCorrect`, `SwitchesAsMeant` and `RestrictionsAreKept`, from what a
  request between its statements knows of the rows (`CatalogueInv`).  Of ServersPage,
  `PageTypeCorrect` and `IntervalsAreKnown`; NoIntervalLost is inductive with the
  types.
- `SessionProofs`.  Of Auth, `RotationExcessBounded`, `LateIssuesAreBounded` and `BlockRevokesAll`
  count.  `UsesOK`: the rotations of a token and the requests that have read it
  and not yet been issued a pair are together at most the requests, as
  none begins once it is revoked.  `LateOK`: the late issues of a blocked user and
  his requests past their check are fewer than the requests, since the block
  itself occupied one while they were all in flight.
  Of WebSession, `SessionTypeCorrect`, `SessionKeepsAuth` and `StoredTokenWorks`, on
  `AuthInv`.  `SlotOK` ties what a call waits for to what its handler
  does; `NewPair` says that a pair just issued is nobody else's until the call
  that asked for it has stored it, so a token that was used up is in the store
  only while the call that used it is yet to come back.
  `LeavingOK` says of a sign-out under way that its token is not stored again and is
  nobody's new pair, so that it may arrive at any time.
  Of ConfigsPage, `FormMakesOne` and `NewConfigIsShown`.  `ButtonOK` says that the button is off
  exactly while one create of this visit is under way, `ChangeOK` that a list
  asked for after a create has its config, unless that has gone since.

Only model-checked: the liveness properties (RequestsEnd, RemovalCompletes, PollingEnds,
PaidIsGranted, SweepCatchesUp, BeatsRevive, SilenceIsNoticed), which are out of the
prover's reach.  Every other property of a
passing run is a theorem, `ActivePeersRouted`, `InsertAccepted`, `RevokedOffNode`,
`KeepsPromise` and `ProcessedIsGranted` under the hypotheses named above, which are what the
configurations of their runs say.

## Not modelled

Of servers, the descriptive fields, costs and alerts are left out, and of
provisioning the text of the log; heartbeats report `wgUp`, which the panel
ignores.  Cryptography, formatting of configs, notifications, cost sums and
input schemas keep no state worth a model; roles are checked by a stateless
guard.  Of the pages, those that load, show and post without a state that
outlives a request are left out, and what `auth.tsx` shows of the user: when a
refused refresh has cleared the store, the user is still shown as signed in
until the page is loaded again.  Resolving names is any answer or none.
`needsUpdate` has no effect, as nothing sets the column it compares (see Routes).  `cancel` of a
subscription has no caller.  The mock provider's webhook takes the
outcome from its body as well and is for development; `Webhook` is YooKassa's.  Building and starting the
deployment are not modelled; its seed is.

## Plan

What is left, in this order; an earlier module is never weakened for a later one.

1. In `System`, Catalogue's allow-lists in place of the constant `AllowedCountries`, and
   the subscriptions that admins give.
2. The users page, and reminders before a subscription ends.
