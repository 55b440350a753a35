CONSTANTS
  Groups = {g1, g2}
  Seeded = {g1}
  Cidrs = {n1}
  Publishers = {b1, b2}
  MaxVersion = 3
  Countries = {c1, c2}
  Codes = {k1, k2}
  Tariffs = {t1}
  Hosts = {h1}
  Tabs = {a1, a2}
  MaxUnrecorded = 1
  Servers = {s1, s2}
  Intervals = {i1, i2}
  Polls = {p1, p2}
  MaxRuns = 2
  Users = {u1, u2}
  Subs = {r1, r2, r3}
  Callers = {d1}
  Days = 2
  Prompt = TRUE
  MaxTime = 5
  MaxGrants = 2
  Null = Null
  Unset = Unset
  None = None
SPECIFICATION Spec
CHECK_DEADLOCK FALSE
INVARIANTS
  SwitchesMeant
  NoIntervalLost
PROPERTIES
  NeverEmptied
  WorkingGroupKept
  NoChurn
  RestrictionKept
  PollingEnds
  KeepsPromise
