CONSTANTS
  Null = Null
  Servers = {v1}
  Tasks = {t1, t2}
  Installs = {i1}
  Events = {"netFails", "agentFails", "lostCall", "serverDeleted", "panelCrash"}
SPECIFICATION FairSpec
CHECK_DEADLOCK FALSE
INVARIANTS
  OfferedIsRegistered
  SuccessMeansRegistered
  RunningIsRunning
PROPERTIES
  BeatsRevive
  SilenceIsNoticed
