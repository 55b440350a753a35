CONSTANTS
  Null = Null
  Servers = {v1}
  Tasks = {t1}
  Installs = {i1}
  Events = {"agentFails"}
SPECIFICATION FairSpec
CHECK_DEADLOCK FALSE
PROPERTY SilentStaysDown
