------------------------------- MODULE ConfigsPage ----------------------------
(***************************************************************************)
(* The user's configs page (apps/web/app/dashboard/configs/page.tsx): the  *)
(* form that makes a config, the list, the buttons of its cards, and what  *)
(* the panel does for their requests.  The list is asked for again after   *)
(* each change, and every answer replaces it.  Other tabs and admins       *)
(* change the configs meanwhile, and servers fill up and go.               *)
(***************************************************************************)
EXTENDS Naturals, FiniteSets

CONSTANTS Configs,   \* rows of wireguard_peers of the user
          Nodes,     \* rows of vpn_servers
          Lands,     \* rows of vpn_countries
          Changes,   \* slots for changes and reloads of this browser
          Asks,      \* and for calls of listAvailable
          Nil,
          MaxPending \* bound: how many are under way before another starts

ASSUME ConfigsAssumption == Nil \notin Configs \cup Nodes \cup Lands /\ MaxPending \in Nat

VARIABLES stored,    \* the row of a config
          place,     \* the country of a server with room, Nil for others
          stage,     \* of the page: "left", "loading" (the spinner), "ready"
          shown,     \* its list of configs
          creating,
          country, offered, serverId,   \* the form
          change, ask

rowVars  == <<stored, place>>
listVars == <<stage, shown, creating>>
formVars == <<country, offered, serverId>>
configsVars == <<rowVars, listVars, formVars, change, ask>>

\* at: "posting" until the panel has acted, "replacing" between the two halves of
\* recreate, then "loading" and "listed".  id: the server or config it carries,
\* then the config that was made.  awaited: the page has not been left.
NoChange == [at |-> "none", by |-> "none", id |-> Nil, awaited |-> FALSE, list |-> {}]
NoAsk    == [at |-> "none", for |-> Nil, list |-> {}]

ConfigsInit ==
  /\ stored = [c \in Configs |-> "none"] /\ place = [s \in Nodes |-> Nil]
  /\ stage = "left" /\ shown = {} /\ creating = FALSE
  /\ country = Nil /\ offered = {} /\ serverId = Nil
  /\ change = [q \in Changes |-> NoChange] /\ ask = [k \in Asks |-> NoAsk]

Vacant == Cardinality({q \in Changes : change[q] # NoChange})
            + Cardinality({k \in Asks : ask[k] # NoAsk}) < MaxPending

Start(q, at, by, id) ==
  /\ change[q] = NoChange /\ Vacant
  /\ change' = [change EXCEPT ![q] = [NoChange EXCEPT !.at = at, !.by = by, !.id = id, !.awaited = TRUE]]

StartAsk(k, c) ==
  /\ ask[k] = NoAsk /\ Vacant
  /\ ask' = [ask EXCEPT ![k] = [NoAsk EXCEPT !.at = "asking", !.for = c]]

\* What other tabs of the user and admins do to configs,
changedElsewhere(c) ==
  /\ \/ stored[c] = "none"   /\ stored' = [stored EXCEPT ![c] = "active"]
     \/ stored[c] = "active" /\ stored' = [stored EXCEPT ![c] = "gone"]
  /\ UNCHANGED <<place, listVars, formVars, change, ask>>

\* and what happens to servers.
serverChanges(s, c) ==
  /\ place' = [place EXCEPT ![s] = c]
  /\ UNCHANGED <<stored, listVars, formVars, change, ask>>

\* The page appears: both effects run.
visit(q, k) ==
  /\ stage = "left" /\ stage' = "loading"
  /\ Start(q, "loading", "visit", Nil) /\ StartAsk(k, Nil)
  /\ shown' = {} /\ creating' = FALSE
  /\ country' = Nil /\ offered' = {} /\ serverId' = Nil
  /\ UNCHANGED rowVars

\* Requests that were sent are carried out, and nobody takes the answer.
leaveConfigs ==
  /\ stage # "left" /\ stage' = "left"
  /\ change' = [q \in Changes |-> IF change[q].at \in {"posting", "replacing"}
                                  THEN [change[q] EXCEPT !.awaited = FALSE] ELSE NoChange]
  /\ ask' = [k \in Asks |-> NoAsk]
  /\ UNCHANGED <<rowVars, shown, creating, formVars>>

\* Mutant: the button can be pressed while a config is being made.
PressableAnyway == serverId # Nil

Pressable == ~creating /\ serverId # Nil

createPeer(q) ==
  /\ stage = "ready" /\ Pressable
  /\ Start(q, "posting", "create", serverId)
  /\ creating' = TRUE
  /\ UNCHANGED <<rowVars, stage, shown, formVars, ask>>

\* A card with its buttons.
Card(c) == stage = "ready" /\ c \in shown

revoke(q, c) ==
  /\ Card(c)
  /\ Start(q, "posting", "revoke", c)
  /\ UNCHANGED <<rowVars, listVars, formVars, ask>>

recreate(q, c) ==
  /\ Card(c)
  /\ Start(q, "posting", "recreate", c)
  /\ UNCHANGED <<rowVars, listVars, formVars, ask>>

\* The panel is through with a change: the page asks for the list.
Reload(q, id) ==
  change' = [change EXCEPT ![q] = IF @.awaited THEN [@ EXCEPT !.at = "loading", !.id = id] ELSE NoChange]

\* What PeersService refuses for want of a subscription, an address or an answer
\* of the node is among the failures.
PanelCreates(q) ==
  /\ change[q].at = "posting" /\ change[q].by = "create" /\ place[change[q].id] # Nil
  /\ \E c \in Configs : /\ stored[c] = "none" /\ stored' = [stored EXCEPT ![c] = "active"]
                        /\ Reload(q, c)
  /\ UNCHANGED <<place, listVars, formVars, ask>>

\* recreate: a new config first,
PanelReplaces(q) ==
  /\ change[q].at = "posting" /\ change[q].by = "recreate" /\ stored[change[q].id] = "active"
  /\ \E c \in Configs : stored[c] = "none" /\ stored' = [stored EXCEPT ![c] = "active"]
  /\ change' = [change EXCEPT ![q].at = "replacing"]
  /\ UNCHANGED <<place, listVars, formVars, ask>>

\* and the old one is revoked.
PanelRevokes(q) ==
  /\ \/ change[q].at = "posting" /\ change[q].by = "revoke"
     \/ change[q].at = "replacing"
  /\ stored[change[q].id] = "active" /\ stored' = [stored EXCEPT ![change[q].id] = "gone"]
  /\ Reload(q, change[q].id)
  /\ UNCHANGED <<place, listVars, formVars, ask>>

listForUser == {c \in Configs : stored[c] = "active"}

PanelLists(q) ==
  /\ change[q].at = "loading"
  /\ change' = [change EXCEPT ![q] = [@ EXCEPT !.at = "listed", !.list = listForUser]]
  /\ UNCHANGED <<rowVars, listVars, formVars, ask>>

\* What waited for a change goes on: the form, or the spinner.
Settled(q) ==
  /\ creating' = (creating /\ ~(change[q].awaited /\ change[q].by = "create"))
  /\ stage' = IF change[q].by = "visit" THEN "ready" ELSE stage
  /\ change' = [change EXCEPT ![q] = NoChange]

\* Mutant: nobody waits for the list after a change.
ShowsBefore(q) == IF change[q].by = "visit" THEN change[q].list ELSE shown

Shows(q) == change[q].list

listed(q) ==
  /\ change[q].at = "listed" /\ Settled(q)
  /\ shown' = Shows(q)
  /\ UNCHANGED <<rowVars, formVars, ask>>

\* A request is refused, fails, or its answer gets lost, be it the list.  createPeer
\* shows an error, of the others the user hears nothing.
ChangeFails(q) ==
  /\ change[q].at \in {"posting", "replacing", "loading"} /\ Settled(q)
  /\ UNCHANGED <<rowVars, shown, formVars, ask>>

chooseCountry(k, c) ==
  /\ stage = "ready" /\ c # country /\ country' = c
  /\ StartAsk(k, c)
  /\ UNCHANGED <<rowVars, listVars, offered, serverId, change>>

chooseServer(s) ==
  /\ stage = "ready" /\ s \in offered /\ serverId' = s
  /\ UNCHANGED <<rowVars, listVars, country, offered, change, ask>>

\* Servers with room, in the country if one is given.
Available(c) == {s \in Nodes : place[s] # Nil /\ c \in {Nil, place[s]}}

listAvailable(k) ==
  /\ ask[k].at = "asking"
  /\ ask' = [ask EXCEPT ![k] = [@ EXCEPT !.at = "answered", !.list = Available(ask[k].for)]]
  /\ UNCHANGED <<rowVars, listVars, formVars, change>>

\* The first server offered is chosen, whatever was.
setServers(k) ==
  /\ ask[k].at = "answered" /\ ask' = [ask EXCEPT ![k] = NoAsk]
  /\ offered' = ask[k].list
  /\ IF offered' = {} THEN serverId' = Nil ELSE serverId' \in offered'
  /\ UNCHANGED <<rowVars, listVars, country, change>>

AskFails(k) ==
  /\ ask[k] # NoAsk /\ ask' = [ask EXCEPT ![k] = NoAsk]
  /\ UNCHANGED <<rowVars, listVars, formVars, change>>

ConfigsNext ==
  \/ \E c \in Configs : changedElsewhere(c)
  \/ \E s \in Nodes : chooseServer(s) \/ \E c \in Lands \cup {Nil} : serverChanges(s, c)
  \/ \E q \in Changes :
       \/ createPeer(q) \/ \E c \in Configs : revoke(q, c) \/ recreate(q, c)
       \/ PanelCreates(q) \/ PanelReplaces(q) \/ PanelRevokes(q) \/ PanelLists(q)
       \/ listed(q) \/ ChangeFails(q)
  \/ \E k \in Asks :
       \/ \E q \in Changes : visit(q, k)
       \/ \E c \in Lands \cup {Nil} : chooseCountry(k, c)
       \/ listAvailable(k) \/ setServers(k) \/ AskFails(k)
  \/ leaveConfigs

ConfigsSpec == ConfigsInit /\ [][ConfigsNext]_configsVars

-------------------------------------------------------------------------------
ChangeRecords == [at : {"none", "posting", "replacing", "loading", "listed"},
                  by : {"none", "visit", "create", "revoke", "recreate"},
                  id : Configs \cup Nodes \cup {Nil}, awaited : BOOLEAN, list : SUBSET Configs]
AskRecords    == [at : {"none", "asking", "answered"}, for : Lands \cup {Nil}, list : SUBSET Nodes]

\* Types.
ConfigsTypeOK ==
  /\ stored \in [Configs -> {"none", "active", "gone"}] /\ place \in [Nodes -> Lands \cup {Nil}]
  /\ stage \in {"left", "loading", "ready"} /\ shown \subseteq Configs /\ creating \in BOOLEAN
  /\ country \in Lands \cup {Nil} /\ offered \subseteq Nodes /\ serverId \in Nodes \cup {Nil}
  /\ change \in [Changes -> ChangeRecords]
  /\ ask \in [Asks -> AskRecords]

Creating(q) == change[q].awaited /\ change[q].by = "create"

\* While the page is there the form makes one config at a time: its button is off
\* exactly as long as a config of it is under way, and the one it would ask for
\* next is on a server that it offers, though answers for other countries arrive
\* late.
OneAtATime ==
  stage # "left" =>
    /\ creating <=> \E q \in Changes : Creating(q)
    /\ \A q, r \in Changes : Creating(q) /\ Creating(r) => q = r
    /\ serverId = Nil <=> offered = {}
    /\ serverId # Nil => serverId \in offered

\* When the button is back, nothing the form has asked for is under way any more,
\* and unless that failed the new config is in the list, or it has been revoked
\* since, also when other changes were under way at the same time.
CreatedIsShown ==
  [][stage = "ready" /\ stage' = "ready" /\ creating /\ ~creating' =>
       /\ \A q \in Changes : ~Creating(q)'
       /\ \E q \in Changes :
            /\ Creating(q)
            /\ change[q].at = "listed" => change[q].id \in shown' \/ stored[change[q].id] = "gone"]_configsVars

\* Not so: with an error, nothing was made.
ErrorMeansNothing ==
  [][\A q \in Changes : Creating(q) /\ change[q].at # "listed" /\ ~Creating(q)' =>
       stage' = "left" \/ change[q].at = "posting"]_configsVars

\* Not so: a config that is revoked and off the list stays off it.  A reload that
\* was asked for earlier and answered late brings it back.
GoneStaysOut ==
  [][stage = "ready" => \A c \in Configs \ shown : stored[c] = "gone" => c \notin shown']_configsVars

\* Not so: a user never makes two configs at once.  A page that comes back knows
\* nothing of the one under way.
OneInFlight == \A q, r \in Changes : change[q].by = "create" /\ change[r].by = "create" => q = r

\* Not so: the servers offered are in the country that is chosen.
OfferedAsChosen ==
  [][\A k \in Asks : setServers(k) /\ (\A j \in Asks \ {k} : ask[j] = NoAsk) => ask[k].for = country]_configsVars
===============================================================================
