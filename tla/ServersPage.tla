------------------------------- MODULE ServersPage ----------------------------
(***************************************************************************)
(* The admin's servers page (apps/web/app/admin/page.tsx) and its live log *)
(* of a provisioning run: intervals, polls under way, and requests whose   *)
(* answers come after the page has gone on or was left.  What the panel    *)
(* does is reduced to the provision status that a run writes.              *)
(***************************************************************************)
EXTENDS Naturals

CONSTANTS Servers,
          Intervals,  \* identities of the browser's intervals
          Polls,      \* bound: polls under way
          MaxRuns,    \* bound: runs started
          None

ASSUME PageAssumption == None \notin Servers \cup Intervals /\ MaxRuns \in Nat

VARIABLES prov,      \* provisionStatus of a server
          running,   \* how many runs of a server are under way
          starting,  \* how many have been started that have not marked it yet
          runs,      \* history: runs started
          mounted,   \* the page has not been left
          act,       \* where the request that starts a run is
          logServer, \* the server whose log is open
          interval,  \* the server an interval polls, None when it is cleared
          pollRef,   \* the interval the page knows of
          poll       \* polls under way

panel == <<prov, running, starting, runs>>
log   == <<logServer, interval, pollRef>>
pageVars == <<panel, mounted, act, log, poll>>

Statuses == {"NONE", "RUNNING", "SUCCESS", "FAILED"}
NoPoll   == [server |-> None, status |-> None]

PageInit ==
  /\ prov     = [s \in Servers |-> "NONE"]
  /\ running  = [s \in Servers |-> 0] /\ starting = running /\ runs = 0
  /\ mounted  = TRUE
  /\ act      = [s \in Servers |-> "none"]
  /\ logServer = None
  /\ interval = [i \in Intervals |-> None] /\ pollRef = None
  /\ poll     = [p \in Polls |-> NoPoll]

\* SshProvisionerService.start does not wait for the run, and the run marks the
\* server when it has read it.
MarkRunning(s) ==
  /\ starting[s] > 0
  /\ starting' = [starting EXCEPT ![s] = @ - 1]
  /\ running'  = [running EXCEPT ![s] = @ + 1]
  /\ prov'     = [prov EXCEPT ![s] = "RUNNING"]
  /\ UNCHANGED <<runs, mounted, act, log, poll>>

RunEnds(s) ==
  /\ running[s] > 0
  /\ running' = [running EXCEPT ![s] = @ - 1]
  /\ \E verdict \in {"SUCCESS", "FAILED"} : prov' = [prov EXCEPT ![s] = verdict]
  /\ UNCHANGED <<starting, runs, mounted, act, log, poll>>

\* submit for a server that is new, reprovision for one that the list, which may be
\* old, shows as not deployed.
press(s) ==
  /\ mounted /\ act[s] = "none" /\ runs < MaxRuns
  /\ act' = [act EXCEPT ![s] = "posting"]
  /\ UNCHANGED <<panel, mounted, log, poll>>

\* The endpoint starts the run and answers, unless the server is registered.
provision(s) ==
  /\ act[s] = "posting"
  /\ \/ /\ prov[s] # "SUCCESS" /\ runs < MaxRuns
        /\ starting' = [starting EXCEPT ![s] = @ + 1] /\ runs' = runs + 1
        /\ act' = [act EXCEPT ![s] = "answered"]
     \/ act' = [act EXCEPT ![s] = "none"] /\ UNCHANGED <<starting, runs>>
  /\ UNCHANGED <<prov, running, mounted, log, poll>>

Cleared == [i \in Intervals |-> IF i = pollRef THEN None ELSE interval[i]]

\* Mutant: a log opened over another leaves its interval running.
OpenKeeps(s, p) ==
  \E i \in Intervals :
    /\ interval[i] = None /\ poll[p] = NoPoll
    /\ logServer' = s
    /\ interval' = [interval EXCEPT ![i] = s] /\ pollRef' = i
    /\ poll' = [poll EXCEPT ![p].server = s]

\* openLog, with its first poll.
Open(s, p) ==
  \E i \in Intervals :
    /\ Cleared[i] = None /\ poll[p] = NoPoll
    /\ logServer' = s
    /\ interval' = [Cleared EXCEPT ![i] = s] /\ pollRef' = i
    /\ poll' = [poll EXCEPT ![p].server = s]

\* The button of a row that the list shows as RUNNING, or the end of a request, wherever the page is by then.
openLog(s, p) ==
  /\ \/ mounted /\ prov[s] # "NONE" /\ UNCHANGED act
     \/ act[s] = "answered" /\ act' = [act EXCEPT ![s] = "none"]
  /\ Open(s, p) /\ UNCHANGED <<panel, mounted>>

tick(i, p) ==
  /\ interval[i] # None /\ poll[p] = NoPoll
  /\ poll' = [poll EXCEPT ![p].server = interval[i]]
  /\ UNCHANGED <<panel, mounted, act, log>>

getState(p) ==
  /\ poll[p].server # None /\ poll[p].status = None
  /\ poll' = [poll EXCEPT ![p].status = prov[poll[p].server]]
  /\ UNCHANGED <<panel, mounted, act, log>>

\* Mutant: the poll after the end of the run goes on.
StopsNever(status) == FALSE

Stops(status) == status # "RUNNING"

\* Whatever log is open by now, it shows the answer, and its interval is stopped.
answered(p) ==
  /\ poll[p].status # None
  /\ poll' = [poll EXCEPT ![p] = NoPoll]
  /\ IF Stops(poll[p].status) /\ pollRef # None
     THEN interval' = Cleared /\ pollRef' = None
     ELSE UNCHANGED <<interval, pollRef>>
  /\ UNCHANGED <<panel, mounted, act, logServer>>

pollFails(p) ==
  /\ poll[p] # NoPoll /\ poll' = [poll EXCEPT ![p] = NoPoll]
  /\ UNCHANGED <<panel, mounted, act, log>>

closeLog ==
  /\ logServer # None /\ mounted
  /\ logServer' = None /\ interval' = Cleared /\ pollRef' = None
  /\ UNCHANGED <<panel, mounted, act, poll>>

\* The effect's cleanup clears the interval and leaves the rest as it is.
leave ==
  /\ mounted /\ mounted' = FALSE /\ interval' = Cleared
  /\ UNCHANGED <<panel, act, logServer, pollRef, poll>>

PageNext ==
  \/ \E s \in Servers : \/ MarkRunning(s) \/ RunEnds(s) \/ press(s) \/ provision(s)
                        \/ \E p \in Polls : openLog(s, p)
  \/ \E p \in Polls : \/ \E i \in Intervals : tick(i, p)
                      \/ getState(p) \/ answered(p) \/ pollFails(p)
  \/ closeLog \/ leave

\* Runs come to an end, intervals tick, and polls do not fail for ever.
PageFairness ==
  /\ \A s \in Servers : WF_pageVars(MarkRunning(s)) /\ WF_pageVars(RunEnds(s))
  /\ \A i \in Intervals : WF_pageVars(\E p \in Polls : tick(i, p))
  /\ \A p \in Polls : SF_pageVars(getState(p)) /\ SF_pageVars(answered(p))

PageSpec == PageInit /\ [][PageNext]_pageVars /\ PageFairness

-------------------------------------------------------------------------------
\* Types.
PageTypeOK ==
  /\ prov \in [Servers -> Statuses]
  /\ running \in [Servers -> Nat] /\ starting \in [Servers -> Nat] /\ runs \in Nat
  /\ mounted \in BOOLEAN
  /\ act \in [Servers -> {"none", "posting", "answered"}]
  /\ logServer \in Servers \cup {None} /\ pollRef \in Intervals \cup {None}
  /\ interval \in [Intervals -> Servers \cup {None}]
  /\ poll \in [Polls -> [server : Servers \cup {None}, status : Statuses \cup {None}]]

\* No interval is lost: each one running can be cleared through pollRef, and
\* while the page is there polls for the log that is open, whatever opens, closes
\* and stops it while answers are on their way.
NoIntervalLost ==
  \A i \in Intervals : interval[i] # None =>
    pollRef = i /\ (mounted => logServer = interval[i])

\* Polling ends after the run has, also when a request opens a log on a page
\* that was left and will never be cleaned up.
PollingEnds == \A i \in Intervals : interval[i] # None ~> interval[i] = None

\* Not so: the log of a run that is under way is live.
LogIsLive ==
  \A s \in Servers : mounted /\ logServer = s /\ running[s] > 0 => \E i \in Intervals : interval[i] = s

\* Not so: the log shows the server whose log is open.
ShownIsOpen ==
  [][\A p \in Polls : answered(p) /\ logServer # None => poll[p].server = logServer]_pageVars
===============================================================================
