-------------------------- MODULE ProvisioningProofs --------------------------
(***************************************************************************)
(* Type correctness of Provisioning and its three safety invariants, for   *)
(* any number of servers, tasks and installations.                         *)
(*                                                                         *)
(* A task writes by a status it has read earlier, so the invariant says of *)
(* each record in progress what it may rely on: that a key, once there,    *)
(* stays.                                                                  *)
(***************************************************************************)
EXTENDS Provisioning, TLAPS

Offered == {"ACTIVE", "UNREACHABLE"}

RowOk(d) ==
  /\ d \in ServerRows
  /\ d.status \in Offered => d.key
  /\ d.prov = "SUCCESS" => d.key
  /\ d.status = "NONE" => d.prov = "NONE"

(* What a task has read of rows r holds of them still, as far as it will   *)
(* write by it.                                                            *)
TaskOk(d, r) ==
  /\ d \in TaskRecords
  /\ d.pc \in {"beating", "probing", "applying"} =>
       d.server \in Servers /\ (d.seen \in Offered => r[d.server].key)
  /\ d.pc = "flagging" => \A s \in d.todo : r[s].key
  /\ d.pc = "registering" => d.server \in Servers /\ d.by \in Installs

InstallOk(d, r) ==
  /\ d \in InstallRecords
  /\ d.pc # "idle" => d.server \in Servers
  /\ d.pc \in {"starting", "loaded", "connecting", "succeeding", "failing"} => d.by = "panel"
  /\ d.pc = "succeeding" => r[d.server].key

Shapes ==
  /\ row \in [Servers -> ServerRows]
  /\ node \in [Servers -> Nodes]
  /\ task \in [Tasks -> TaskRecords]
  /\ install \in [Installs -> InstallRecords]
  /\ restarted \in BOOLEAN

Contents ==
  /\ \A s \in Servers : RowOk(row[s])
  /\ \A t \in Tasks : TaskOk(task[t], row)
  /\ \A i \in Installs : InstallOk(install[i], row)

Inv == Shapes /\ Contents /\ RunningIsRunning

LEMMA Idles ==
  /\ NoTask \in TaskRecords /\ NoTask.pc = "idle"
  /\ NoInstall \in InstallRecords /\ NoInstall.pc = "idle"
BY DEF NoTask, TaskRecords, NoInstall, InstallRecords

LEMMA InitInv == Init => Inv
<1> SUFFICES ASSUME Init PROVE Inv
  OBVIOUS
<1> DEFINE d == [status |-> "NONE", token |-> FALSE, key |-> FALSE,
                 beat |-> "never", prov |-> "NONE"]
           n == [agent |-> "none", net |-> "open"]
<1>1. /\ d \in ServerRows /\ d.status = "NONE" /\ d.prov = "NONE"
      /\ n \in Nodes
  BY DEF ServerRows, Nodes
<1>2. /\ row = [s \in Servers |-> d] /\ node = [s \in Servers |-> n]
      /\ task = [t \in Tasks |-> NoTask] /\ install = [i \in Installs |-> NoInstall]
      /\ restarted = FALSE
  BY DEF Init, ServersInit
<1> HIDE DEF d, n
<1>3. Shapes
  BY <1>1, <1>2, Idles DEF Shapes
<1>4. Contents
  BY <1>1, <1>2, Idles DEF Contents, RowOk, TaskOk, InstallOk, Offered
<1>5. RunningIsRunning
  BY <1>1, <1>2 DEF RunningIsRunning
<1> QED  BY <1>3, <1>4, <1>5 DEF Inv

-----------------------------------------------------------------------------
(* Rows change in one of few ways.                                         *)
KeysStay == \A s \in Servers : row[s].key => row'[s].key

(* Nothing new is shown as running.                                        *)
NoNewRun ==
  \A s \in Servers : Exists(s)' /\ row'[s].prov = "RUNNING" =>
    Exists(s) /\ row[s].prov = "RUNNING"

RowsKeep ==
  /\ row' \in [Servers -> ServerRows]
  /\ \A s \in Servers : RowOk(row'[s])
  /\ KeysStay
  /\ NoNewRun

LEMMA SameRows ==
  ASSUME Inv, UNCHANGED row
  PROVE  RowsKeep
BY DEF Inv, Shapes, Contents, RowsKeep, KeysStay, NoNewRun, Exists

LEMMA OneRow ==
  ASSUME Inv, NEW s \in Servers, NEW d, RowOk(d), row[s].key => d.key,
         row' = [row EXCEPT ![s] = d],
         d.prov = "RUNNING" /\ d.status \notin {"NONE", "DELETED"} =>
           Exists(s) /\ row[s].prov = "RUNNING"
  PROVE  RowsKeep
<1>1. row' \in [Servers -> ServerRows] /\ \A q \in Servers : RowOk(row'[q])
  BY DEF Inv, Shapes, Contents, RowOk
<1>2. row'[s] = d /\ \A q \in Servers : q # s => row'[q] = row[q]
  BY DEF Inv, Shapes
<1>3. KeysStay
  BY <1>2 DEF KeysStay
<1>4. NoNewRun
  BY <1>2 DEF NoNewRun, Exists
<1> QED  BY <1>1, <1>3, <1>4 DEF RowsKeep

LEMMA StatusRow ==
  ASSUME Inv, NEW s \in Servers,
         NEW status \in {"PENDING", "ACTIVE", "UNREACHABLE", "DELETED"},
         SetStatus(s, status), status \in Offered => row[s].key, Exists(s)
  PROVE  RowsKeep
<1> DEFINE d == [row[s] EXCEPT !.status = status]
<1>1. row[s] \in ServerRows /\ RowOk(row[s])
  BY DEF Inv, Shapes, Contents
<1>2. /\ d \in ServerRows /\ d.status = status
      /\ d.key = row[s].key /\ d.prov = row[s].prov
  BY <1>1 DEF ServerRows
<1>3. row' = [row EXCEPT ![s] = d]
  BY DEF SetStatus
<1> HIDE DEF d
<1>4. RowOk(d)
  BY <1>1, <1>2 DEF RowOk
<1> QED  BY <1>2, <1>3, <1>4, OneRow

-----------------------------------------------------------------------------
(* Records in progress rely on keys only.                                  *)
LEMMA TaskStays ==
  ASSUME Inv, KeysStay, NEW d, TaskOk(d, row)
  PROVE  TaskOk(d, row')
BY DEF Inv, TaskOk, KeysStay, TaskRecords

LEMMA InstallStays ==
  ASSUME Inv, KeysStay, NEW d, InstallOk(d, row)
  PROVE  InstallOk(d, row')
BY DEF Inv, InstallOk, KeysStay, InstallRecords

TasksKeep ==
  task' \in [Tasks -> TaskRecords] /\ \A t \in Tasks : TaskOk(task'[t], row')

InstallsKeep ==
  install' \in [Installs -> InstallRecords] /\ \A i \in Installs : InstallOk(install'[i], row')

LEMMA SameTasks ==
  ASSUME Inv, KeysStay, UNCHANGED task
  PROVE  TasksKeep
BY TaskStays DEF TasksKeep, Inv, Shapes, Contents

LEMMA OneTask ==
  ASSUME Inv, KeysStay, NEW t \in Tasks, NEW d, TaskOk(d, row'),
         task' = [task EXCEPT ![t] = d]
  PROVE  TasksKeep
BY TaskStays DEF TasksKeep, Inv, Shapes, Contents, TaskOk

LEMMA TaskEnds ==
  ASSUME Inv, KeysStay, NEW t \in Tasks, End(t)
  PROVE  TasksKeep
BY OneTask, Idles DEF End, TaskOk

LEMMA SameInstalls ==
  ASSUME Inv, KeysStay, UNCHANGED install
  PROVE  InstallsKeep
BY InstallStays DEF InstallsKeep, Inv, Shapes, Contents

LEMMA OneInstall ==
  ASSUME Inv, KeysStay, NEW i \in Installs, NEW d, InstallOk(d, row'),
         install' = [install EXCEPT ![i] = d]
  PROVE  InstallsKeep
BY InstallStays DEF InstallsKeep, Inv, Shapes, Contents, InstallOk

-----------------------------------------------------------------------------
(* The actions of module Servers.                                          *)
ServerKeeps == RowsKeep /\ TasksKeep /\ node' \in [Servers -> Nodes]

LEMMA CreateKeeps ==
  ASSUME Inv, NEW s \in Servers, create(s)
  PROVE  ServerKeeps
<1> DEFINE d == [row[s] EXCEPT !.status = "PENDING", !.token = TRUE]
<1>1. row[s] \in ServerRows /\ RowOk(row[s]) /\ row[s].status = "NONE"
  BY DEF Inv, Shapes, Contents, create
<1>2. /\ d \in ServerRows /\ d.status = "PENDING"
      /\ d.key = row[s].key /\ d.prov = row[s].prov
  BY <1>1 DEF ServerRows
<1>3. row' = [row EXCEPT ![s] = d]
  BY <1>1 DEF create
<1> HIDE DEF d
<1>4. RowOk(d) /\ d.prov = "NONE"
  BY <1>1, <1>2 DEF RowOk, Offered
<1>5. RowsKeep
  BY <1>2, <1>3, <1>4, OneRow
<1> QED  BY <1>5, SameTasks DEF ServerKeeps, RowsKeep, create, Inv, Shapes

LEMMA RemoveKeeps ==
  ASSUME Inv, NEW s \in Servers, remove(s)
  PROVE  ServerKeeps
<1>1. RowsKeep
  BY StatusRow DEF remove, Offered
<1> QED  BY <1>1, SameTasks DEF ServerKeeps, RowsKeep, remove, Inv, Shapes

LEMMA BeatAgesKeeps ==
  ASSUME Inv, NEW s \in Servers, BeatAges(s)
  PROVE  ServerKeeps
<1> DEFINE d == [row[s] EXCEPT !.beat = "old"]
<1>1. row[s] \in ServerRows /\ RowOk(row[s])
  BY DEF Inv, Shapes, Contents
<1>2. /\ d \in ServerRows /\ d.status = row[s].status
      /\ d.key = row[s].key /\ d.prov = row[s].prov
  BY <1>1 DEF ServerRows
<1>3. row' = [row EXCEPT ![s] = d]
  BY DEF BeatAges
<1> HIDE DEF d
<1>4. RowOk(d)
  BY <1>1, <1>2 DEF RowOk
<1>5. RowsKeep
  BY <1>2, <1>3, <1>4, OneRow DEF Exists
<1> QED  BY <1>5, SameTasks DEF ServerKeeps, RowsKeep, BeatAges, Inv, Shapes

LEMMA NodeKeeps ==
  ASSUME Inv, NEW s \in Servers, AgentChanges(s) \/ NetChanges(s)
  PROVE  ServerKeeps
<1>1. row[s] \in ServerRows /\ node[s] \in Nodes
  BY DEF Inv, Shapes
<1>2. UNCHANGED <<row, task>>
  BY DEF AgentChanges, NetChanges
<1>3. ASSUME AgentChanges(s)  PROVE node' \in [Servers -> Nodes]
  <2> DEFINE n == [node[s] EXCEPT !.agent = IF @ = "up" THEN "down" ELSE "up"]
  <2>1. n \in Nodes
    BY <1>1 DEF Nodes
  <2>2. node' = [node EXCEPT ![s] = n]
    BY <1>3 DEF AgentChanges
  <2> HIDE DEF n
  <2> QED  BY <2>1, <2>2 DEF Inv, Shapes
<1>4. ASSUME NEW net \in {"open", "blocked", "closed"},
             node' = [node EXCEPT ![s].net = net]
      PROVE  node' \in [Servers -> Nodes]
  <2> DEFINE n == [node[s] EXCEPT !.net = net]
  <2>1. n \in Nodes
    BY <1>1 DEF Nodes
  <2>2. node' = [node EXCEPT ![s] = n]
    BY <1>4
  <2> HIDE DEF n
  <2> QED  BY <2>1, <2>2 DEF Inv, Shapes
<1>5. node' \in [Servers -> Nodes]
  BY <1>3, <1>4 DEF NetChanges, Inv, Shapes
<1> QED  BY <1>2, <1>5, SameRows, SameTasks DEF ServerKeeps, RowsKeep

(* The tasks that begin: each has just read what it will rely on.          *)
LEMMA BeginKeeps ==
  ASSUME Inv, NEW t \in Tasks, TaskBegins(t)
  PROVE  ServerKeeps
<1>0. /\ UNCHANGED <<row, node>> /\ RowsKeep /\ KeysStay
      /\ \A q \in Servers : row[q] \in ServerRows /\ RowOk(row[q])
  BY SameRows
  DEF TaskBegins, HeartbeatRead, WatchdogRead, CheckBegin, RowsKeep, Inv, Shapes, Contents
<1>1. ASSUME NEW s \in Servers, HeartbeatRead(t, s)
      PROVE  TasksKeep
  <2> DEFINE d == [NoTask EXCEPT !.pc = "beating", !.server = s, !.seen = row[s].status]
  <2>1. row[s].status \in {"PENDING", "ACTIVE", "UNREACHABLE"}
    BY <1>0, <1>1 DEF HeartbeatRead, Exists, ServerRows
  <2>2. d \in TaskRecords /\ d.pc = "beating" /\ d.server = s /\ d.seen = row[s].status
    BY <2>1, Idles DEF NoTask, TaskRecords
  <2>3. task' = [task EXCEPT ![t] = d]
    BY <1>1 DEF HeartbeatRead, Begin
  <2> HIDE DEF d
  <2>4. TaskOk(d, row')
    BY <1>0, <2>2 DEF TaskOk, RowOk
  <2> QED  BY <1>0, <2>3, <2>4, OneTask
<1>2. ASSUME WatchdogRead(t)  PROVE TasksKeep
  <2> DEFINE d == [NoTask EXCEPT !.pc = "flagging", !.todo = Late]
  <2>1. Late \subseteq Servers /\ \A s \in Late : row[s].key
    BY DEF Late
  <2>2. d \in TaskRecords /\ d.pc = "flagging" /\ d.todo = Late
    BY <2>1, Idles DEF NoTask, TaskRecords
  <2>3. task' = [task EXCEPT ![t] = d]
    BY <1>2 DEF WatchdogRead, Begin
  <2> HIDE DEF d
  <2>4. TaskOk(d, row')
    BY <1>0, <2>1, <2>2 DEF TaskOk
  <2> QED  BY <1>0, <2>3, <2>4, OneTask
<1>3. ASSUME NEW all \in SUBSET Servers,
             Begin(t, [NoTask EXCEPT !.pc = "loading", !.todo = all])
      PROVE  TasksKeep
  <2> DEFINE d == [NoTask EXCEPT !.pc = "loading", !.todo = all]
  <2>1. d \in TaskRecords /\ d.pc = "loading"
    BY Idles DEF NoTask, TaskRecords
  <2>2. task' = [task EXCEPT ![t] = d]
    BY <1>3 DEF Begin
  <2> HIDE DEF d
  <2>3. TaskOk(d, row')
    BY <2>1 DEF TaskOk
  <2> QED  BY <1>0, <2>2, <2>3, OneTask
<1>4. ASSUME CheckBegin(t)  PROVE TasksKeep
  <2>1. \E all \in SUBSET Servers :
          Begin(t, [NoTask EXCEPT !.pc = "loading", !.todo = all])
    BY <1>4, Zenon DEF CheckBegin
  <2> QED  BY <1>3, <2>1
<1>5. TasksKeep
  BY <1>1, <1>2, <1>4 DEF TaskBegins
<1> QED  BY <1>0, <1>5 DEF ServerKeeps, Inv, Shapes

LEMMA HeartbeatWriteKeeps ==
  ASSUME Inv, NEW t \in Tasks, HeartbeatWrite(t)
  PROVE  ServerKeeps
<1> DEFINE s == task[t].server
           d == [row[s] EXCEPT !.beat = "fresh",
                   !.status = IF Recovers(task[t].seen) THEN "ACTIVE" ELSE @]
<1>1. /\ s \in Servers /\ TaskOk(task[t], row) /\ task[t].pc = "beating"
      /\ row[s] \in ServerRows /\ RowOk(row[s])
  BY DEF HeartbeatWrite, Doing, TaskOk, Inv, Shapes, Contents
<1>2. task[t].seen \in Offered => row[s].key
  BY <1>1 DEF TaskOk
<1>3. /\ d \in ServerRows /\ d.key = row[s].key /\ d.prov = row[s].prov
      /\ d.status = IF Recovers(task[t].seen) THEN "ACTIVE" ELSE row[s].status
  BY <1>1 DEF ServerRows
<1>4. row' = row \/ (Exists(s) /\ row' = [row EXCEPT ![s] = d])
  BY DEF HeartbeatWrite
<1> HIDE DEF s, d
<1>5. RowOk(d)
  BY <1>1, <1>2, <1>3 DEF RowOk, Recovers, Offered
<1>6. RowsKeep
  BY <1>1, <1>3, <1>4, <1>5, OneRow, SameRows
<1> QED
  BY <1>6, TaskEnds DEF ServerKeeps, RowsKeep, HeartbeatWrite, Inv, Shapes

LEMMA WatchdogWriteKeeps ==
  ASSUME Inv, NEW t \in Tasks, WatchdogWrite(t)
  PROVE  ServerKeeps
<1>1. /\ task[t] \in TaskRecords /\ TaskOk(task[t], row) /\ task[t].pc = "flagging"
      /\ task[t].todo \subseteq Servers
  BY DEF WatchdogWrite, Doing, Inv, Shapes, Contents, TaskRecords
<1>2. PICK s \in task[t].todo :
        \/ /\ Exists(s) /\ SetStatus(s, "UNREACHABLE")
           /\ End(t) \/ task' = [task EXCEPT ![t].todo = @ \ {s}]
        \/ End(t) /\ UNCHANGED row
  BY DEF WatchdogWrite
<1>3. s \in Servers /\ row[s].key
  BY <1>1 DEF TaskOk
<1>4. RowsKeep
  BY <1>2, <1>3, StatusRow, SameRows
<1>5. ASSUME task' = [task EXCEPT ![t].todo = @ \ {s}]  PROVE TasksKeep
  <2> DEFINE d == [task[t] EXCEPT !.todo = @ \ {s}]
  <2>1. d \in TaskRecords /\ d.pc = "flagging" /\ d.todo = task[t].todo \ {s}
    BY <1>1 DEF TaskRecords
  <2>2. task' = [task EXCEPT ![t] = d]
    BY <1>5
  <2> HIDE DEF d
  <2>3. TaskOk(d, row)
    BY <1>1, <2>1 DEF TaskOk
  <2> QED  BY <1>4, <2>2, <2>3, TaskStays, OneTask DEF RowsKeep
<1>6. TasksKeep
  BY <1>2, <1>4, <1>5, TaskEnds DEF RowsKeep
<1> QED  BY <1>4, <1>6 DEF ServerKeeps, WatchdogWrite, Inv, Shapes

LEMMA NextServerKeeps ==
  ASSUME Inv, KeysStay, NEW t \in Tasks, NextServer(t)
  PROVE  TasksKeep
<1> DEFINE d == [NoTask EXCEPT !.pc = "loading", !.todo = task[t].todo]
<1>1. task[t].todo \subseteq Servers
  BY DEF Inv, Shapes, TaskRecords
<1>2. d \in TaskRecords /\ d.pc = "loading"
  BY <1>1, Idles DEF NoTask, TaskRecords
<1>3. End(t) \/ task' = [task EXCEPT ![t] = d]
  BY DEF NextServer
<1> HIDE DEF d
<1>4. TaskOk(d, row')
  BY <1>2 DEF TaskOk
<1> QED  BY <1>3, <1>4, TaskEnds, OneTask

LEMMA CheckLoadKeeps ==
  ASSUME Inv, NEW t \in Tasks, CheckLoad(t)
  PROVE  ServerKeeps
<1>0. /\ UNCHANGED <<row, node>> /\ RowsKeep /\ KeysStay
      /\ task[t] \in TaskRecords /\ task[t].pc = "loading"
      /\ task[t].todo \subseteq Servers
      /\ \A q \in Servers : row[q] \in ServerRows /\ RowOk(row[q])
  BY SameRows DEF CheckLoad, Doing, RowsKeep, Inv, Shapes, Contents, TaskRecords
<1>1. PICK s \in task[t].todo :
        \/ /\ Exists(s)
           /\ task' = [task EXCEPT ![t] = [NoTask EXCEPT !.pc = "probing", !.server = s,
                                !.seen = row[s].status, !.todo = task[t].todo \ {s}]]
        \/ End(t)
        \/ task' = [task EXCEPT ![t].todo = task[t].todo \ {s}]
  BY DEF CheckLoad
<1>2. s \in Servers
  BY <1>0
<1>3. ASSUME Exists(s),
             task' = [task EXCEPT ![t] = [NoTask EXCEPT !.pc = "probing", !.server = s,
                                !.seen = row[s].status, !.todo = task[t].todo \ {s}]]
      PROVE  TasksKeep
  <2> DEFINE d == [NoTask EXCEPT !.pc = "probing", !.server = s,
                                 !.seen = row[s].status, !.todo = task[t].todo \ {s}]
  <2>1. row[s].status \in {"PENDING", "ACTIVE", "UNREACHABLE"}
    BY <1>0, <1>2, <1>3 DEF Exists, ServerRows
  <2>2. d \in TaskRecords /\ d.pc = "probing" /\ d.server = s /\ d.seen = row[s].status
    BY <1>0, <1>2, <2>1, Idles DEF NoTask, TaskRecords
  <2>3. task' = [task EXCEPT ![t] = d]
    BY <1>3
  <2> HIDE DEF d
  <2>4. TaskOk(d, row')
    BY <1>0, <1>2, <2>2 DEF TaskOk, RowOk
  <2> QED  BY <1>0, <2>3, <2>4, OneTask
<1>4. ASSUME task' = [task EXCEPT ![t].todo = task[t].todo \ {s}]
      PROVE  TasksKeep
  <2> DEFINE d == [task[t] EXCEPT !.todo = task[t].todo \ {s}]
  <2>1. d \in TaskRecords /\ d.pc = "loading"
    BY <1>0 DEF TaskRecords
  <2>2. task' = [task EXCEPT ![t] = d]
    BY <1>4
  <2> HIDE DEF d
  <2>3. TaskOk(d, row')
    BY <2>1 DEF TaskOk
  <2> QED  BY <1>0, <2>2, <2>3, OneTask
<1>5. TasksKeep
  BY <1>0, <1>1, <1>3, <1>4, TaskEnds
<1> QED  BY <1>0, <1>5 DEF ServerKeeps, Inv, Shapes

LEMMA CheckProbeKeeps ==
  ASSUME Inv, NEW t \in Tasks, CheckProbe(t)
  PROVE  ServerKeeps
<1>0. /\ UNCHANGED <<row, node>> /\ RowsKeep /\ KeysStay
      /\ task[t] \in TaskRecords /\ task[t].pc = "probing" /\ TaskOk(task[t], row)
  BY SameRows DEF CheckProbe, Doing, RowsKeep, Inv, Shapes, Contents
<1>1. PICK ok \in BOOLEAN : task' = [task EXCEPT ![t].pc = "applying", ![t].ok = ok]
  BY DEF CheckProbe, Healthy
<1> DEFINE d == [task[t] EXCEPT !.pc = "applying", !.ok = ok]
<1>2. /\ d \in TaskRecords /\ d.pc = "applying"
      /\ d.server = task[t].server /\ d.seen = task[t].seen
  BY <1>0 DEF TaskRecords
<1>3. task' = [task EXCEPT ![t] = d]
  BY <1>0, <1>1 DEF Inv, Shapes
<1> HIDE DEF d
<1>4. TaskOk(d, row')
  BY <1>0, <1>2 DEF TaskOk
<1> QED  BY <1>0, <1>3, <1>4, OneTask DEF ServerKeeps, Inv, Shapes

LEMMA CheckApplyKeeps ==
  ASSUME Inv, NEW t \in Tasks, CheckApply(t)
  PROVE  ServerKeeps
<1> DEFINE s == task[t].server
           status == Transition(task[t].seen, task[t].ok, row[s].status)
<1>1. /\ task[t] \in TaskRecords /\ task[t].pc = "applying" /\ TaskOk(task[t], row)
      /\ s \in Servers /\ row[s] \in ServerRows /\ RowOk(row[s])
  BY DEF CheckApply, Doing, TaskOk, Inv, Shapes, Contents
<1>2. task[t].seen \in Offered => row[s].key
  BY <1>1 DEF TaskOk
<1>3. UNCHANGED row \/ (Exists(s) /\ SetStatus(s, status))
  BY DEF CheckApply
<1>4. Exists(s) => /\ status \in {"PENDING", "ACTIVE", "UNREACHABLE", "DELETED"}
                   /\ status \in Offered => row[s].key
  BY <1>1, <1>2 DEF Transition, Exists, ServerRows, RowOk, Offered
<1> HIDE DEF s, status
<1>5. RowsKeep
  BY <1>1, <1>3, <1>4, StatusRow, SameRows
<1> QED
  BY <1>5, NextServerKeeps DEF ServerKeeps, RowsKeep, CheckApply, Inv, Shapes

LEMMA ServersKeep ==
  ASSUME Inv, ServersNext
  PROVE  ServerKeeps
<1>1. ASSUME NEW t \in Tasks, TaskStep(t)  PROVE ServerKeeps
  BY <1>1, HeartbeatWriteKeeps, WatchdogWriteKeeps, CheckLoadKeeps, CheckProbeKeeps,
     CheckApplyKeeps DEF TaskStep
<1> QED
  BY <1>1, BeginKeeps, CreateKeeps, RemoveKeeps, BeatAgesKeeps, NodeKeeps DEF ServersNext

-----------------------------------------------------------------------------
(* Installations.                                                          *)
AtWork == {"connecting", "running", "calling", "waiting", "succeeding", "failing"}

WorksKeep == \A i \in Installs, s \in Servers : Works(i, s) => Works(i, s)'

LEMMA StartKeeps ==
  ASSUME Inv, KeysStay, NEW i \in Installs, NEW s \in Servers,
         Start(i, [pc |-> "starting", server |-> s, by |-> "panel"])
         \/ Start(i, [pc |-> "running", server |-> s, by |-> "admin"])
  PROVE  InstallsKeep /\ WorksKeep
<1> DEFINE d == [pc |-> "starting", server |-> s, by |-> "panel"]
           e == [pc |-> "running", server |-> s, by |-> "admin"]
<1>0. InstallOk(d, row') /\ InstallOk(e, row')
  BY DEF InstallRecords, InstallOk
<1> HIDE DEF d, e
<1>1. PICK f : /\ At(i, "idle") /\ install' = [install EXCEPT ![i] = f]
               /\ InstallOk(f, row')
  BY <1>0 DEF Start, d, e
<1>2. WorksKeep
  BY <1>1 DEF WorksKeep, Works, At, Node, Inv, Shapes
<1> QED  BY <1>1, <1>2, OneInstall

LEMMA GotoKeeps ==
  ASSUME Inv, KeysStay, NEW i \in Installs, install[i].pc # "idle",
         NEW pc \in AtWork \cup {"loaded"}, Goto(i, pc),
         pc \in {"loaded", "connecting", "succeeding", "failing"} => install[i].by = "panel",
         pc = "succeeding" => row'[Node(i)].key,
         pc = "loaded" => At(i, "starting")
  PROVE  InstallsKeep /\ WorksKeep
<1> DEFINE d == [install[i] EXCEPT !.pc = pc]
<1>1. install[i] \in InstallRecords /\ InstallOk(install[i], row)
  BY DEF Inv, Shapes, Contents
<1>2. /\ d \in InstallRecords /\ d.pc = pc
      /\ d.server = Node(i) /\ d.by = install[i].by
  BY <1>1 DEF InstallRecords, AtWork, Node
<1>3. install' = [install EXCEPT ![i] = d]
  BY DEF Goto
<1> HIDE DEF d
<1>4. InstallOk(d, row')
  BY <1>1, <1>2 DEF InstallOk, AtWork, Node
<1>5. WorksKeep
  BY <1>2, <1>3 DEF WorksKeep, Works, At, Node, AtWork, Inv, Shapes
<1> QED  BY <1>3, <1>4, <1>5, OneInstall

LEMMA StopKeeps ==
  ASSUME Inv, KeysStay, NEW i \in Installs, Stop(i)
  PROVE  /\ InstallsKeep
         /\ \A j \in Installs, s \in Servers : j # i /\ Works(j, s) => Works(j, s)'
<1>1. InstallOk(NoInstall, row')
  BY Idles DEF InstallOk, NoInstall
<1> QED  BY <1>1, OneInstall DEF Stop, Works, Node, Inv, Shapes

LEMMA ExitKeeps ==
  ASSUME Inv, KeysStay, NEW i \in Installs, install[i].pc # "idle",
         NEW pc \in {"succeeding", "failing"}, Exit(i, pc),
         pc = "succeeding" => row'[Node(i)].key
  PROVE  InstallsKeep /\ WorksKeep
<1>1. CASE install[i].by = "panel"
  BY <1>1, GotoKeeps DEF Exit, AtWork
<1>2. CASE install[i].by # "panel"
  BY <1>2, StopKeeps DEF Exit, WorksKeep, Works
<1> QED  BY <1>1, <1>2

LEMMA SameRuns ==
  ASSUME Inv, NoNewRun, WorksKeep, UNCHANGED restarted
  PROVE  RunningIsRunning'
BY DEF Inv, RunningIsRunning, NoNewRun, WorksKeep

(* One server's run changes.                                               *)
LEMMA OneRun ==
  ASSUME Inv, UNCHANGED restarted, NEW s \in Servers, NEW i \in Installs, Node(i) = s,
         \A q \in Servers \ {s} : Exists(q)' /\ row'[q].prov = "RUNNING" =>
           Exists(q) /\ row[q].prov = "RUNNING",
         \A j \in Installs, q \in Servers : j # i /\ Works(j, q) => Works(j, q)',
         Exists(s)' /\ row'[s].prov = "RUNNING" => Works(i, s)'
  PROVE  RunningIsRunning'
BY DEF Inv, RunningIsRunning, Works

-----------------------------------------------------------------------------
RowsHold ==
  row' \in [Servers -> ServerRows] /\ (\A s \in Servers : RowOk(row'[s])) /\ KeysStay

StepKeeps == RowsHold /\ TasksKeep /\ InstallsKeep /\ node' \in [Servers -> Nodes]

(* The provisioner writes its verdict, or finds the server gone.           *)
LEMMA SetProvKeeps ==
  ASSUME Inv, NEW i \in Installs, UNCHANGED <<node, task, restarted>>,
         NEW prov \in {"RUNNING", "SUCCESS", "FAILED"}, NEW pc \in {"idle", "connecting"},
         install[i].pc \in {"loaded", "succeeding", "failing"},
         SetProv(i, prov, pc),
         prov = "SUCCESS" => At(i, "succeeding"),
         prov = "RUNNING" <=> pc = "connecting"
  PROVE  StepKeeps /\ RunningIsRunning'
<1>0. PICK s \in Servers : s = Node(i)
  BY DEF Inv, Contents, InstallOk, Node
<1> DEFINE d == [row[s] EXCEPT !.prov = prov]
<1>1. /\ install[i] \in InstallRecords /\ InstallOk(install[i], row) /\ Node(i) = s
      /\ install[i].by = "panel" /\ row[s] \in ServerRows /\ RowOk(row[s])
  BY <1>0 DEF Inv, Shapes, Contents, InstallOk, Node
<1>2. /\ d \in ServerRows /\ d.status = row[s].status
      /\ d.key = row[s].key /\ d.prov = prov
  BY <1>1 DEF ServerRows
<1>3. At(i, "succeeding") => row[s].key
  BY <1>1 DEF At, InstallOk, Node
<1>4. CASE Exists(s)
  <2>1. row' = [row EXCEPT ![s] = d] /\ (IF pc = "idle" THEN Stop(i) ELSE Goto(i, pc))
    BY <1>0, <1>4 DEF SetProv
  <2> HIDE DEF d
  <2>2. RowOk(d)
    BY <1>1, <1>2, <1>3, <1>4 DEF RowOk, Exists
  <2>3. row'[s] = d /\ \A q \in Servers : q # s => row'[q] = row[q]
    BY <1>1, <2>1 DEF Inv, Shapes
  <2>4. row' \in [Servers -> ServerRows] /\ \A q \in Servers : RowOk(row'[q])
    BY <1>2, <2>1, <2>2, <2>3 DEF Inv, Shapes, Contents
  <2>5. KeysStay
    BY <1>2, <2>3 DEF KeysStay
  <2>6. InstallsKeep /\ \A j \in Installs, q \in Servers : j # i /\ Works(j, q) => Works(j, q)'
    BY <1>1, <2>1, <2>5, StopKeeps, GotoKeeps DEF AtWork, WorksKeep, At
  <2>7. pc = "connecting" => Works(i, s)'
    BY <1>1, <2>1 DEF Goto, Works, Node, InstallRecords, Inv, Shapes
  <2>8. RunningIsRunning'
    BY <1>1, <1>2, <2>3, <2>6, <2>7, OneRun DEF Exists
  <2> QED  BY <2>4, <2>5, <2>6, <2>8, SameTasks DEF StepKeeps, RowsHold, Inv, Shapes
<1>5. CASE ~Exists(s)
  <2>1. UNCHANGED row /\ Stop(i)
    BY <1>0, <1>5 DEF SetProv
  <2>2. RowsKeep
    BY <2>1, SameRows
  <2>3. InstallsKeep /\ \A j \in Installs, q \in Servers : j # i /\ Works(j, q) => Works(j, q)'
    BY <2>1, <2>2, StopKeeps DEF RowsKeep
  <2>4. RunningIsRunning'
    BY <1>1, <1>5, <2>1, <2>3, OneRun DEF Exists
  <2> QED  BY <2>2, <2>3, <2>4, SameTasks DEF StepKeeps, RowsKeep, RowsHold, Inv, Shapes
<1> QED  BY <1>4, <1>5

-----------------------------------------------------------------------------
(* The script, and the rest of run().                                      *)
LEMMA BeginsKeep ==
  ASSUME Inv, NEW i \in Installs, InstallBegins(i), UNCHANGED restarted
  PROVE  StepKeeps /\ RunningIsRunning'
<1>1. UNCHANGED <<row, node, task>> /\ RowsKeep
  BY SameRows DEF InstallBegins, provision, getInstallScript, serverVars
<1>2. InstallsKeep /\ WorksKeep
  BY <1>1, StartKeeps DEF InstallBegins, provision, getInstallScript, RowsKeep
<1> QED
  BY <1>1, <1>2, SameTasks, SameRuns DEF StepKeeps, RowsKeep, RowsHold, Inv, Shapes

LEMMA LoadKeeps ==
  ASSUME Inv, NEW i \in Installs, Load(i), UNCHANGED restarted
  PROVE  StepKeeps /\ RunningIsRunning'
<1>1. UNCHANGED <<row, node, task>> /\ RowsKeep
  BY SameRows DEF Load, serverVars
<1>2. install[i].by = "panel" /\ install[i].pc = "starting"
  BY DEF Load, At, Inv, Contents, InstallOk
<1>3. InstallsKeep /\ WorksKeep
  <2>1. CASE Stop(i)
    BY <1>1, <1>2, <2>1, StopKeeps DEF RowsKeep, WorksKeep, Works
  <2>2. ASSUME NEW pc \in {"loaded", "failing"}, Goto(i, pc)
        PROVE  InstallsKeep /\ WorksKeep
    BY <1>1, <1>2, <2>2, GotoKeeps DEF RowsKeep, AtWork, At
  <2> QED  BY <2>1, <2>2 DEF Load
<1> QED
  BY <1>1, <1>3, SameTasks, SameRuns DEF StepKeeps, RowsKeep, RowsHold, Inv, Shapes

LEMMA ConnectKeeps ==
  ASSUME Inv, NEW i \in Installs, Connect(i), UNCHANGED restarted
  PROVE  StepKeeps /\ RunningIsRunning'
<1>1. UNCHANGED <<row, node, task>> /\ RowsKeep
  BY SameRows DEF Connect, serverVars
<1>2. install[i].by = "panel" /\ install[i].pc = "connecting" /\ Node(i) \in Servers
  BY DEF Connect, At, Node, Inv, Contents, InstallOk
<1>3. ASSUME NEW pc \in {"running", "failing"}, Goto(i, pc)
      PROVE  InstallsKeep /\ RunningIsRunning'
  BY <1>1, <1>2, <1>3, GotoKeeps, SameRuns DEF RowsKeep, AtWork
<1>4. ASSUME ~Exists(Node(i)), Stop(i)
      PROVE  InstallsKeep /\ RunningIsRunning'
  <2>1. PICK s \in Servers : s = Node(i) /\ ~Exists(s)'
    BY <1>1, <1>2, <1>4 DEF Exists
  <2> QED  BY <1>1, <1>4, <2>1, StopKeeps, OneRun DEF RowsKeep, Exists
<1>5. InstallsKeep /\ RunningIsRunning'
  BY <1>3, <1>4 DEF Connect
<1> QED
  BY <1>1, <1>5, SameTasks DEF StepKeeps, RowsKeep, RowsHold, Inv, Shapes

LEMMA ScriptKeeps ==
  ASSUME Inv, NEW i \in Installs, ScriptRuns(i), UNCHANGED restarted
  PROVE  StepKeeps /\ RunningIsRunning'
<1>1. UNCHANGED <<row, task>> /\ RowsKeep
  BY SameRows DEF ScriptRuns
<1>2. /\ install[i].pc = "running" /\ Node(i) \in Servers /\ node[Node(i)] \in Nodes
  BY DEF ScriptRuns, At, Node, Inv, Shapes, Contents, InstallOk
<1>3. InstallsKeep /\ WorksKeep
  <2>1. CASE Exit(i, "failing")
    BY <1>1, <1>2, <2>1, ExitKeeps DEF RowsKeep
  <2>2. CASE Goto(i, "calling")
    BY <1>1, <1>2, <2>2, GotoKeeps DEF RowsKeep, AtWork
  <2> QED  BY <2>1, <2>2 DEF ScriptRuns
<1>4. node' \in [Servers -> Nodes]
  <2>1. ASSUME NEW agent \in {"up", "down"}, node' = [node EXCEPT ![Node(i)].agent = agent]
        PROVE  node' \in [Servers -> Nodes]
    <3> DEFINE n == [node[Node(i)] EXCEPT !.agent = agent]
    <3>1. n \in Nodes
      BY <1>2 DEF Nodes
    <3>2. node' = [node EXCEPT ![Node(i)] = n]
      BY <2>1
    <3> HIDE DEF n
    <3> QED  BY <1>2, <3>1, <3>2 DEF Inv, Shapes
  <2> QED  BY <2>1 DEF ScriptRuns, Inv, Shapes
<1> QED
  BY <1>1, <1>3, <1>4, SameTasks, SameRuns DEF StepKeeps, RowsKeep, RowsHold

LEMMA RefusedKeeps ==
  ASSUME Inv, NEW i \in Installs, RegisterFails(i), UNCHANGED restarted
  PROVE  StepKeeps /\ RunningIsRunning'
<1>1. UNCHANGED <<row, node, task>> /\ RowsKeep
  BY SameRows DEF RegisterFails, serverVars
<1>2. InstallsKeep /\ WorksKeep
  BY <1>1, ExitKeeps DEF RegisterFails, At, RowsKeep
<1> QED
  BY <1>1, <1>2, SameTasks, SameRuns DEF StepKeeps, RowsKeep, RowsHold, Inv, Shapes

LEMMA ReadKeeps ==
  ASSUME Inv, NEW i \in Installs, NEW t \in Tasks, RegisterRead(t, i), UNCHANGED restarted
  PROVE  StepKeeps /\ RunningIsRunning'
<1>1. UNCHANGED <<row, node>> /\ RowsKeep
  BY SameRows DEF RegisterRead
<1>2. install[i].pc = "calling" /\ Node(i) \in Servers
  BY DEF RegisterRead, At, Node, Inv, Contents, InstallOk
<1>3. InstallsKeep /\ WorksKeep
  BY <1>1, <1>2, GotoKeeps DEF RegisterRead, RowsKeep, AtWork
<1>4. TasksKeep
  <2> DEFINE d == [NoTask EXCEPT !.pc = "registering", !.server = Node(i), !.by = i]
  <2>1. /\ d \in TaskRecords /\ d.pc = "registering"
        /\ d.server \in Servers /\ d.by \in Installs
    BY <1>2, Idles DEF NoTask, TaskRecords
  <2>2. task' = [task EXCEPT ![t] = d]
    BY DEF RegisterRead, Begin
  <2> HIDE DEF d
  <2>3. TaskOk(d, row')
    BY <2>1 DEF TaskOk
  <2> QED  BY <1>1, <2>2, <2>3, OneTask DEF RowsKeep
<1> QED
  BY <1>1, <1>3, <1>4, SameRuns DEF StepKeeps, RowsKeep, RowsHold, Inv, Shapes

LEMMA RegisteredKeeps ==
  ASSUME Inv, NEW t \in Tasks, RegisterWrite(t), UNCHANGED restarted
  PROVE  StepKeeps /\ RunningIsRunning'
<1>0. PICK s \in Servers, i \in Installs : s = task[t].server /\ i = task[t].by
  BY DEF RegisterWrite, Doing, Inv, Contents, TaskOk
<1> DEFINE d == [row[s] EXCEPT !.status = "ACTIVE", !.key = TRUE,
                               !.beat = "fresh", !.token = FALSE]
<1>1. row[s] \in ServerRows /\ RowOk(row[s])
  BY DEF Inv, Shapes, Contents
<1>2. /\ d \in ServerRows /\ d.status = "ACTIVE" /\ d.key /\ d.prov = row[s].prov
  BY <1>1 DEF ServerRows
<1>3. \/ /\ Exists(s)
         /\ row' = [row EXCEPT ![s] = d]
         /\ Answer(t, "succeeding")
      \/ UNCHANGED row /\ Answer(t, "failing")
  BY <1>0 DEF RegisterWrite
<1> HIDE DEF d
<1>4. RowsKeep /\ (row' = [row EXCEPT ![s] = d] => row'[s].key)
  BY <1>1, <1>2, <1>3, OneRow, SameRows DEF RowOk, Inv, Shapes
<1>5. \/ UNCHANGED install
      \/ install[i].pc # "idle" /\ Exit(i, "failing")
      \/ install[i].pc # "idle" /\ Exit(i, "succeeding") /\ row'[Node(i)].key
  BY <1>0, <1>3, <1>4 DEF Answer, At
<1>6. InstallsKeep /\ WorksKeep
  <2>1. CASE UNCHANGED install
    BY <1>4, <2>1, SameInstalls DEF RowsKeep, WorksKeep, Works, Node
  <2> QED  BY <1>4, <1>5, <2>1, ExitKeeps DEF RowsKeep
<1> QED
  BY <1>4, <1>6, TaskEnds, SameRuns DEF RegisterWrite, StepKeeps, RowsKeep, RowsHold, Inv, Shapes

LEMMA RestartKeeps ==
  ASSUME Inv, Restart
  PROVE  StepKeeps /\ restarted' = TRUE
<1>1. UNCHANGED <<row, node>> /\ RowsKeep
  BY SameRows DEF Restart
<1>2. TasksKeep
  BY Idles DEF Restart, TasksKeep, TaskOk
<1>3. PICK goOn \in SUBSET {i \in Installs : At(i, "running") \/ At(i, "calling")} :
        install' = [i \in Installs |-> IF i \in goOn THEN [install[i] EXCEPT !.by = "admin"]
                                       ELSE NoInstall]
  BY DEF Restart
<1>4. ASSUME NEW i \in Installs  PROVE InstallOk(install'[i], row')
  <2>1. CASE i \in goOn
    <3> DEFINE d == [install[i] EXCEPT !.by = "admin"]
    <3>1. /\ install[i] \in InstallRecords /\ InstallOk(install[i], row)
          /\ install[i].pc \in {"running", "calling"}
      BY <2>1 DEF Inv, Shapes, Contents, At
    <3>2. /\ d \in InstallRecords /\ d.pc = install[i].pc /\ d.server = install[i].server
      BY <3>1 DEF InstallRecords
    <3>3. install'[i] = d
      BY <1>3, <2>1
    <3> HIDE DEF d
    <3> QED  BY <3>1, <3>2, <3>3 DEF InstallOk
  <2>2. CASE i \notin goOn
    BY <1>3, <2>2, Idles DEF InstallOk
  <2> QED  BY <2>1, <2>2
<1>5. InstallsKeep
  <2>1. \A i \in Installs : install'[i] \in InstallRecords
    BY <1>4 DEF InstallOk
  <2> QED  BY <1>3, <1>4, <2>1 DEF InstallsKeep
<1> QED  BY <1>1, <1>2, <1>5 DEF StepKeeps, RowsKeep, RowsHold, Restart, Inv, Shapes

-----------------------------------------------------------------------------
LEMMA InstallsStep ==
  ASSUME Inv, NEW i \in Installs, InstallBegins(i) \/ InstallStep(i), UNCHANGED restarted
  PROVE  StepKeeps /\ RunningIsRunning'
<1>1. CASE MarkRunning(i)
  BY <1>1, SetProvKeeps DEF MarkRunning, At
<1>2. CASE Succeed(i)
  BY <1>2, SetProvKeeps DEF Succeed, At
<1>3. CASE Fail(i)
  BY <1>3, SetProvKeeps DEF Fail, At
<1> QED
  BY <1>1, <1>2, <1>3, BeginsKeep, LoadKeeps, ConnectKeeps, ScriptKeeps, RefusedKeeps,
     ReadKeeps DEF InstallStep

LEMMA StepInv == Inv /\ [Next]_vars => Inv'
<1> SUFFICES ASSUME Inv, [Next]_vars  PROVE StepKeeps /\ restarted' \in BOOLEAN
                                            /\ RunningIsRunning'
  BY DEF Inv, Shapes, Contents, StepKeeps, RowsHold, TasksKeep, InstallsKeep
<1>0. restarted \in BOOLEAN
  BY DEF Inv, Shapes
<1>1. CASE ServersNext /\ UNCHANGED <<install, restarted>>
  <2>1. WorksKeep
    BY <1>1 DEF WorksKeep, Works, Node
  <2> QED
    BY <1>0, <1>1, <2>1, ServersKeep, SameInstalls, SameRuns
    DEF ServerKeeps, StepKeeps, RowsKeep, RowsHold
<1>2. CASE UNCHANGED restarted /\ \E t \in Tasks : RegisterWrite(t)
  BY <1>0, <1>2, RegisteredKeeps
<1>3. CASE UNCHANGED restarted /\ \E i \in Installs : InstallBegins(i) \/ InstallStep(i)
  BY <1>0, <1>3, InstallsStep
<1>4. CASE PanelCrash \/ \E i \in Installs : OutputUnhandled(i)
  BY <1>4, RestartKeeps DEF PanelCrash, OutputUnhandled, RunningIsRunning
<1>5. CASE UNCHANGED vars
  <2>1. WorksKeep /\ NoNewRun
    BY <1>5 DEF WorksKeep, Works, Node, NoNewRun, Exists, vars, serverVars
  <2> QED
    BY <1>0, <1>5, <2>1, SameRows, SameTasks, SameInstalls, SameRuns
    DEF StepKeeps, RowsKeep, RowsHold, vars, serverVars, Inv, Shapes
<1> QED  BY <1>1, <1>2, <1>3, <1>4, <1>5 DEF Next

(* The invariant holds of every reachable state.                           *)
THEOREM InvHolds == Spec => []Inv
BY InitInv, StepInv, PTL DEF Spec

(* Every variable keeps its shape; in particular no step of any task writes*)
(* to, or acts for, a server that was never created.                       *)
THEOREM ProvisioningTypeCorrect == Spec => []TypeOK
<1>1. Inv => TypeOK
  BY DEF Inv, Shapes, TypeOK, ServersTypeOK
<1> QED  BY <1>1, InvHolds, PTL

(* However heartbeats, checks, the watchdog and installations overlap, and *)
(* whenever the API restarts, a server offered to users has a key.         *)
THEOREM OfferedAreRegistered == Spec => []OfferedIsRegistered
<1>1. Inv => OfferedIsRegistered
  BY DEF Inv, Contents, RowOk, Offered, OfferedIsRegistered
<1> QED  BY <1>1, InvHolds, PTL

(* A server shown as installed has a key, lost answers or not.             *)
THEOREM SuccessIsRegistered == Spec => []SuccessMeansRegistered
<1>1. Inv => SuccessMeansRegistered
  BY DEF Inv, Contents, RowOk, SuccessMeansRegistered
<1> QED  BY <1>1, InvHolds, PTL

(* Unless the API has restarted, an installation shown as running has a run*)
(* of the provisioner that will still write its verdict.                   *)
THEOREM RunningHasRun == Spec => []RunningIsRunning
<1>1. Inv => RunningIsRunning
  BY DEF Inv
<1> QED  BY <1>1, InvHolds, PTL
===============================================================================
