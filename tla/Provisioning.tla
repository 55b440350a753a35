----------------------------- MODULE Provisioning -----------------------------
(***************************************************************************)
(* Installing a node and registering it: the panel's SSH provisioner       *)
(* (apps/api/src/provisioning/ssh-provisioner.service.ts), the script it   *)
(* runs or an admin pastes (apps/api/src/servers/install-script.ts), and   *)
(* the endpoint the script registers with, composed with module Servers.   *)
(***************************************************************************)
EXTENDS Servers

VARIABLES
  install,    \* install[i]: where an installation is
  restarted   \* history: the API process has ended at least once

vars == <<serverVars, install, restarted>>

(* The provisioner's run() is at "starting", "loaded", "connecting",       *)
(* "succeeding" or "failing"; the script at "running", "calling" (the      *)
(* panel) and "waiting" (for its answer).  by: who started the script, and *)
(* whom its exit code is for.                                              *)
InstallRecords ==
  [pc : {"idle", "starting", "loaded", "connecting", "running", "calling",
         "waiting", "succeeding", "failing"},
   server : Servers \cup {Null}, by : {"none", "panel", "admin"}]

NoInstall == [pc |-> "idle", server |-> Null, by |-> "none"]

TypeOK ==
  /\ ServersTypeOK
  /\ install \in [Installs -> InstallRecords]
  /\ restarted \in BOOLEAN

Init ==
  /\ ServersInit
  /\ install = [i \in Installs |-> NoInstall]
  /\ restarted = FALSE

At(i, pc) == install[i].pc = pc

Node(i) == install[i].server

Start(i, d) == At(i, "idle") /\ install' = [install EXCEPT ![i] = d]

Goto(i, pc) == install' = [install EXCEPT ![i].pc = pc]

Stop(i) == install' = [install EXCEPT ![i] = NoInstall]

(* The script's exit code: the provisioner reads it, an admin looks at it. *)
Exit(i, pc) == IF install[i].by = "panel" THEN Goto(i, pc) ELSE Stop(i)

-----------------------------------------------------------------------------
(* POST admin/servers and POST admin/servers/:id/provision: run() starts   *)
(* for a server with a token, and the request is answered.                 *)
provision(i, s) ==
  /\ Exists(s) /\ row[s].token
  /\ Start(i, [pc |-> "starting", server |-> s, by |-> "panel"])
  /\ UNCHANGED serverVars

(* The one-liner on a VPS: the script is handed out for the token.         *)
getInstallScript(i, s) ==
  /\ Exists(s) /\ row[s].token
  /\ Start(i, [pc |-> "running", server |-> s, by |-> "admin"])
  /\ UNCHANGED serverVars

(* run() reads the server again: it is gone, registered, or to be done.    *)
Load(i) ==
  /\ At(i, "starting")
  /\ \/ ~Exists(Node(i)) /\ Stop(i)
     \/ Exists(Node(i)) /\ Goto(i, IF row[Node(i)].token THEN "loaded" ELSE "failing")
  /\ UNCHANGED serverVars

(* An update of a deleted row throws, and ends the run.                    *)
SetProv(i, prov, pc) ==
  IF Exists(Node(i))
    THEN /\ row' = [row EXCEPT ![Node(i)].prov = prov]
         /\ IF pc = "idle" THEN Stop(i) ELSE Goto(i, pc)
    ELSE Stop(i) /\ UNCHANGED row

MarkRunning(i) ==
  /\ At(i, "loaded")
  /\ SetProv(i, "RUNNING", "connecting")
  /\ UNCHANGED <<node, task>>

(* Connecting, and the uploads; each of which can fail, or find out that   *)
(* the server, whose log they append to, is gone.                          *)
Connect(i) ==
  /\ At(i, "connecting")
  /\ \/ Exists(Node(i)) /\ node[Node(i)].net # "closed" /\ Goto(i, "running")
     \/ Exists(Node(i)) /\ "netFails" \in Events /\ Goto(i, "failing")
     \/ ~Exists(Node(i)) /\ Stop(i)
  /\ UNCHANGED serverVars

(* Mutant: a failure is logged, not recorded.                              *)
FailSilently(i) ==
  /\ At(i, "failing")
  /\ Stop(i)
  /\ UNCHANGED serverVars

Fail(i) ==
  /\ At(i, "failing")
  /\ SetProv(i, "FAILED", "idle")
  /\ UNCHANGED <<node, task>>

Succeed(i) ==
  /\ At(i, "succeeding")
  /\ SetProv(i, "SUCCESS", "idle")
  /\ UNCHANGED <<node, task>>

-----------------------------------------------------------------------------
(* The script fails early, or gets to start the agent, which may not come  *)
(* up (|| true).                                                           *)
ScriptRuns(i) ==
  LET s == Node(i) IN
  /\ At(i, "running")
  /\ \/ "netFails" \in Events /\ Exit(i, "failing") /\ UNCHANGED node
     \/ /\ node' = [node EXCEPT ![s].agent = "up"]
        /\ Goto(i, "calling")
     \/ /\ "agentFails" \in Events
        /\ node' = [node EXCEPT ![s].agent = "down"]
        /\ Goto(i, "calling")
  /\ UNCHANGED <<row, task>>

(* register: the token is compared with the row's.                         *)
RegisterRead(t, i) ==
  LET s == Node(i) IN
  /\ At(i, "calling")
  /\ Exists(s) /\ row[s].token
  /\ Begin(t, [NoTask EXCEPT !.pc = "registering", !.server = s, !.by = i])
  /\ Goto(i, "waiting")
  /\ UNCHANGED <<row, node>>

(* Mutant: the answer to the last command of the script is ignored.        *)
RegisterRefusedIgnored(i) ==
  /\ At(i, "calling") \/ At(i, "waiting")
  /\ \/ At(i, "calling") /\ ~(Exists(Node(i)) /\ row[Node(i)].token)
     \/ "lostCall" \in Events
  /\ Exit(i, "succeeding")
  /\ UNCHANGED serverVars

(* curl -f fails: on a refusal, a lost call, or a lost answer, whatever    *)
(* has become of the call.                                                 *)
RegisterFails(i) ==
  /\ At(i, "calling") \/ At(i, "waiting")
  /\ \/ At(i, "calling") /\ ~(Exists(Node(i)) /\ row[Node(i)].token)
     \/ "lostCall" \in Events
  /\ Exit(i, "failing")
  /\ UNCHANGED serverVars

(* The answer to the script that made the call, should it still wait.      *)
Answer(t, pc) ==
  LET i == task[t].by IN
  IF At(i, "waiting") /\ Node(i) = task[t].server THEN Exit(i, pc)
  ELSE UNCHANGED install

RegisterWrite(t) ==
  LET s == task[t].server IN
  /\ Doing(t, "registering")
  /\ IF Exists(s)
       THEN /\ row' = [row EXCEPT ![s].status = "ACTIVE", ![s].key = TRUE,
                                  ![s].beat = "fresh", ![s].token = FALSE]
            /\ Answer(t, "succeeding")
       ELSE Answer(t, "failing") /\ UNCHANGED row
  /\ End(t)
  /\ UNCHANGED node

-----------------------------------------------------------------------------
(* The process ends with all its tasks and runs of the provisioner.  A     *)
(* script may go on without them, unless it waits for an answer.           *)
Restart ==
  /\ restarted' = TRUE
  /\ task' = [t \in Tasks |-> NoTask]
  /\ \E goOn \in SUBSET {i \in Installs : At(i, "running") \/ At(i, "calling")} :
       install' = [i \in Installs |-> IF i \in goOn THEN [install[i] EXCEPT !.by = "admin"]
                                      ELSE NoInstall]
  /\ UNCHANGED <<row, node>>

(* Bound: once, for a panel that always restarts gets nothing done.        *)
PanelCrash == "panelCrash" \in Events /\ ~restarted /\ Restart

(* Output of the script is appended to the log of a row that is deleted:   *)
(* `void append()` rejects, nobody handles it, and Node ends the process.  *)
OutputUnhandled(i) ==
  /\ install[i].by = "panel" /\ install[i].pc \in {"running", "calling", "waiting"}
  /\ row[Node(i)].status = "DELETED"
  /\ Restart

InstallBegins(i) == \E s \in Servers : provision(i, s) \/ getInstallScript(i, s)

InstallStep(i) ==
  \/ Load(i) \/ MarkRunning(i) \/ Connect(i) \/ Succeed(i) \/ Fail(i)
  \/ ScriptRuns(i) \/ RegisterFails(i)
  \/ \E t \in Tasks : RegisterRead(t, i)

Next ==
  \/ ServersNext /\ UNCHANGED <<install, restarted>>
  \/ /\ UNCHANGED restarted
     /\ \/ \E t \in Tasks : RegisterWrite(t)
        \/ \E i \in Installs : InstallBegins(i) \/ InstallStep(i)
  \/ PanelCrash
  \/ \E i \in Installs : OutputUnhandled(i)

Spec == Init /\ [][Next]_vars

-----------------------------------------------------------------------------
(* A server that is offered to users, or was, has the key their configs    *)
(* need: no heartbeat, check, late write or failed install makes a server  *)
(* ACTIVE that has not registered.                                         *)
OfferedIsRegistered ==
  \A s \in Servers : row[s].status \in {"ACTIVE", "UNREACHABLE"} => row[s].key

(* What is shown as installed has registered, whatever was lost on the way.*)
SuccessMeansRegistered ==
  \A s \in Servers : row[s].prov = "SUCCESS" => row[s].key

(* An installation that is shown as running is running: every way out of   *)
(* run() leaves a verdict, and of overlapping runs the last one does.  An  *)
(* end of the panel is what it does not survive.                           *)
Works(i, s) ==
  /\ install[i].by = "panel" /\ Node(i) = s
  /\ install[i].pc \notin {"idle", "starting", "loaded"}

RunningIsRunning ==
  ~restarted =>
    \A s \in Servers :
      Exists(s) /\ row[s].prov = "RUNNING" => \E i \in Installs : Works(i, s)

(* "If a deploy fails, use Retry" (README.md:118): a failed installation can*)
(* be run again.                                                           *)
FailedCanBeRetried ==
  \A s \in Servers : Exists(s) /\ row[s].prov = "FAILED" => row[s].token

-----------------------------------------------------------------------------
(* The event loop runs what was begun, agents send their heartbeats and the*)
(* scheduler begins the watchdog, whatever else is being done; a node that *)
(* is silent for ten minutes is late.                                      *)
FairSpec ==
  /\ Spec
  /\ \A t \in Tasks : WF_vars(TaskStep(t) /\ UNCHANGED <<install, restarted>>)
  /\ \A s \in Servers :
       /\ SF_vars((\E t \in Tasks : HeartbeatRead(t, s)) /\ UNCHANGED <<install, restarted>>)
       /\ WF_vars(BeatAges(s) /\ node[s].agent # "up" /\ UNCHANGED <<install, restarted>>)
  /\ SF_vars((\E t \in Tasks : WatchdogRead(t)) /\ UNCHANGED <<install, restarted>>)

(* A server whose agent lives comes back, again and again if need be,      *)
(* however long its checks go wrong.                                       *)
BeatsRevive ==
  \A s \in Servers :
    <>[](Exists(s) /\ row[s].key /\ node[s].agent = "up") => []<>(row[s].status = "ACTIVE")

(* One whose agent is dead is noticed, although the checks, which do not   *)
(* miss the agent, put it back.                                            *)
SilenceIsNoticed ==
  \A s \in Servers :
    <>[](Exists(s) /\ row[s].key /\ node[s].agent = "down") =>
      []<>(row[s].status = "UNREACHABLE")

(* It is noticed for good: "Agent unreachable - covered by `reachable`     *)
(* flag below." (health.service.ts:42).                                    *)
SilentStaysDown ==
  \A s \in Servers :
    <>[](Exists(s) /\ row[s].key /\ node[s].agent = "down") =>
      <>[](row[s].status = "UNREACHABLE")
===============================================================================
