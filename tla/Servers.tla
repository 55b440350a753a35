-------------------------------- MODULE Servers -------------------------------
(***************************************************************************)
(* A server in the panel: ServersService (apps/api/src/servers), the health*)
(* checks and the heartbeat watchdog (apps/api/src/health), and what they  *)
(* see of its node.                                                        *)
(*                                                                         *)
(* A task is a handler or a cron run in progress; one action runs from one *)
(* `await` to the next, so each writes by a status read earlier.  Module   *)
(* Provisioning composes this with the installation of nodes.              *)
(***************************************************************************)
EXTENDS Naturals, FiniteSets

CONSTANTS
  Servers,
  Tasks,     \* handlers and cron runs that may be in progress
  Installs,  \* installations that may be in progress
  Null,
  Events     \* what happens around the panel, of ServerEvents

ServerEvents == {"netFails",      \* a node's SSH port or target services fail
                 "agentFails",    \* the agent of a node stops, or never starts
                 "lostCall",      \* a call between node and panel is lost
                 "serverDeleted", \* an admin deletes a server
                 "panelCrash"}    \* the API process restarts

ASSUME ServersAssumption == Null \notin Servers \cup Installs

VARIABLES
  row,      \* row[s]: the row of s in the vpn_servers table
  node,     \* node[s]: the VPS
  task      \* task[t]: where a task is

serverVars == <<row, node, task>>

(* token and key: whether installToken and serverPublicKey are set.  beat: *)
(* lastHeartbeatAt, "old" when it is more than ten minutes ago.            *)
ServerRows ==
  [status : {"NONE", "PENDING", "ACTIVE", "UNREACHABLE", "DELETED"},
   token : BOOLEAN, key : BOOLEAN, beat : {"never", "fresh", "old"},
   prov : {"NONE", "RUNNING", "SUCCESS", "FAILED"}]

(* net: what a check can see of the node's network.  "blocked": some target*)
(* services cannot be reached from it.  "closed": its SSH port does not    *)
(* answer.                                                                 *)
Nodes == [agent : {"none", "up", "down"}, net : {"open", "blocked", "closed"}]

(* seen: the status read.  ok: the verdict of a check.  todo: the servers  *)
(* a cron run has still to go through.  by: the install that registers.    *)
TaskRecords ==
  [pc : {"idle", "beating", "flagging", "loading", "probing", "applying", "registering"},
   server : Servers \cup {Null},
   seen : {"NONE", "PENDING", "ACTIVE", "UNREACHABLE"},
   ok : BOOLEAN, todo : SUBSET Servers, by : Installs \cup {Null}]

NoTask == [pc |-> "idle", server |-> Null, seen |-> "NONE", ok |-> FALSE,
           todo |-> {}, by |-> Null]

ServersTypeOK ==
  /\ row \in [Servers -> ServerRows]
  /\ node \in [Servers -> Nodes]
  /\ task \in [Tasks -> TaskRecords]

ServersInit ==
  /\ row = [s \in Servers |-> [status |-> "NONE", token |-> FALSE, key |-> FALSE,
                               beat |-> "never", prov |-> "NONE"]]
  /\ node = [s \in Servers |-> [agent |-> "none", net |-> "open"]]
  /\ task = [t \in Tasks |-> NoTask]

Exists(s) == row[s].status \notin {"NONE", "DELETED"}

Doing(t, pc) == task[t].pc = pc

Begin(t, d) == Doing(t, "idle") /\ task' = [task EXCEPT ![t] = d]

End(t) == task' = [task EXCEPT ![t] = NoTask]

SetStatus(s, status) == row' = [row EXCEPT ![s].status = status]

-----------------------------------------------------------------------------
(* Admins.  update() could write a status too, but its input schema has    *)
(* none: PATCH changes nothing that is modelled here.                      *)
create(s) ==
  /\ row[s].status = "NONE"
  /\ row' = [row EXCEPT ![s].status = "PENDING", ![s].token = TRUE]
  /\ UNCHANGED <<node, task>>

remove(s) ==
  /\ "serverDeleted" \in Events
  /\ Exists(s)
  /\ SetStatus(s, "DELETED")
  /\ UNCHANGED <<node, task>>

-----------------------------------------------------------------------------
(* heartbeat: a minute has passed on a node whose agent runs.              *)
HeartbeatRead(t, s) ==
  /\ node[s].agent = "up"
  /\ Exists(s)
  /\ Begin(t, [NoTask EXCEPT !.pc = "beating", !.server = s, !.seen = row[s].status])
  /\ UNCHANGED <<row, node>>

(* Mutants: it recovers every server that is not ACTIVE; and none.         *)
RecoversAll(seen)  == TRUE
RecoversNone(seen) == FALSE

Recovers(seen) == seen = "UNREACHABLE"

(* An update of a deleted row throws, and the agent ignores the answer.    *)
HeartbeatWrite(t) ==
  LET s == task[t].server IN
  /\ Doing(t, "beating")
  /\ row' = IF ~Exists(s) THEN row
            ELSE [row EXCEPT ![s].beat = "fresh",
                             ![s].status = IF Recovers(task[t].seen) THEN "ACTIVE" ELSE @]
  /\ End(t)
  /\ UNCHANGED node

-----------------------------------------------------------------------------
(* heartbeatWatchdog.  Mutant: it looks for servers that never were heard. *)
LateNever == {s \in Servers : row[s].status = "ACTIVE" /\ row[s].beat = "never"}

Late == {s \in Servers : row[s].status = "ACTIVE" /\ row[s].key /\ row[s].beat = "old"}

WatchdogRead(t) ==
  /\ Late # {}
  /\ Begin(t, [NoTask EXCEPT !.pc = "flagging", !.todo = Late])
  /\ UNCHANGED <<row, node>>

(* One after the other; a deleted server ends the run for all that follow. *)
WatchdogWrite(t) ==
  /\ Doing(t, "flagging")
  /\ \E s \in task[t].todo :
       IF Exists(s)
         THEN /\ SetStatus(s, "UNREACHABLE")
              /\ IF task[t].todo = {s} THEN End(t)
                 ELSE task' = [task EXCEPT ![t].todo = @ \ {s}]
         ELSE End(t) /\ UNCHANGED row
  /\ UNCHANGED node

-----------------------------------------------------------------------------
(* checkAll, every five minutes, and an admin's check of one server.       *)
CheckBegin(t) ==
  /\ \/ \E s \in Servers :
          Exists(s) /\ Begin(t, [NoTask EXCEPT !.pc = "loading", !.todo = {s}])
     \/ LET all == {s \in Servers : row[s].status \in {"ACTIVE", "UNREACHABLE"}} IN
          all # {} /\ Begin(t, [NoTask EXCEPT !.pc = "loading", !.todo = all])
  /\ UNCHANGED <<row, node>>

NextServer(t) ==
  IF task[t].todo = {} THEN End(t)
  ELSE task' = [task EXCEPT ![t] = [NoTask EXCEPT !.pc = "loading", !.todo = task[t].todo]]

(* The server is read, or gone.                                            *)
CheckLoad(t) ==
  /\ Doing(t, "loading")
  /\ \E s \in task[t].todo :
       LET rest == task[t].todo \ {s} IN
       \/ /\ Exists(s)
          /\ task' = [task EXCEPT ![t] = [NoTask EXCEPT !.pc = "probing", !.server = s,
                                            !.seen = row[s].status, !.todo = rest]]
       \/ /\ ~Exists(s)
          /\ IF rest = {} THEN End(t) ELSE task' = [task EXCEPT ![t].todo = rest]
  /\ UNCHANGED <<row, node>>

(* Does the agent answer in time?                                          *)
Answers(s) ==
  {a \in BOOLEAN : IF node[s].agent = "up"
                     THEN a \/ "lostCall" \in Events ELSE ~a}

(* `results` stays empty when the agent does not answer, and every of its  *)
(* no entries is true.                                                     *)
Healthy(s, answer) ==
  node[s].net # "closed" /\ (answer => node[s].net # "blocked")

CheckProbe(t) ==
  LET s == task[t].server IN
  /\ Doing(t, "probing")
  /\ \E answer \in Answers(s) :
       task' = [task EXCEPT ![t].pc = "applying", ![t].ok = Healthy(s, answer)]
  /\ UNCHANGED <<row, node>>

(* Mutant: whatever is not UNREACHABLE was healthy.                        *)
TransitionOfAny(seen, ok, status) ==
  IF ~ok /\ seen # "UNREACHABLE" THEN "UNREACHABLE"
  ELSE IF ok /\ seen = "UNREACHABLE" THEN "ACTIVE" ELSE status

(* applyStatusTransition, by the status read before the probes.            *)
Transition(seen, ok, status) ==
  IF ~ok /\ seen = "ACTIVE" THEN "UNREACHABLE"
  ELSE IF ok /\ seen = "UNREACHABLE" THEN "ACTIVE" ELSE status

(* The record of the check, which is refused when the server is deleted,   *)
(* and the transition.                                                     *)
CheckApply(t) ==
  LET s == task[t].server IN
  /\ Doing(t, "applying")
  /\ IF Exists(s) THEN SetStatus(s, Transition(task[t].seen, task[t].ok, row[s].status))
     ELSE UNCHANGED row
  /\ NextServer(t)
  /\ UNCHANGED node

-----------------------------------------------------------------------------
(* Nodes: what stops, starts again.  That of a row that does not exist     *)
(* concerns nobody.                                                        *)
AgentChanges(s) ==
  /\ "agentFails" \in Events
  /\ Exists(s) /\ node[s].agent # "none"
  /\ node' = [node EXCEPT ![s].agent = IF @ = "up" THEN "down" ELSE "up"]
  /\ UNCHANGED <<row, task>>

NetChanges(s) ==
  /\ "netFails" \in Events
  /\ Exists(s)
  /\ \E net \in {"open", "blocked", "closed"} \ {node[s].net} :
       node' = [node EXCEPT ![s].net = net]
  /\ UNCHANGED <<row, task>>

(* Ten minutes without a heartbeat: the agent does not run, or ten in a row*)
(* were lost.                                                              *)
BeatAges(s) ==
  /\ row[s].beat = "fresh"
  /\ node[s].agent # "up" \/ "lostCall" \in Events
  /\ row' = [row EXCEPT ![s].beat = "old"]
  /\ UNCHANGED <<node, task>>

TaskStep(t) ==
  \/ HeartbeatWrite(t) \/ WatchdogWrite(t)
  \/ CheckLoad(t) \/ CheckProbe(t) \/ CheckApply(t)

TaskBegins(t) ==
  \/ \E s \in Servers : HeartbeatRead(t, s)
  \/ WatchdogRead(t) \/ CheckBegin(t)

ServersNext ==
  \/ \E t \in Tasks : TaskStep(t) \/ TaskBegins(t)
  \/ \E s \in Servers : \/ create(s) \/ remove(s) \/ BeatAges(s)
                        \/ AgentChanges(s) \/ NetChanges(s)
===============================================================================
