CONSTANTS
  Null = Null
  u1 = u1
  p1 = p1
  p2 = p2
  Users = {u1}
  Payments = {p1, p2}
  Payer <- OnePayer
  Bodies <- CrossedBodies
  Subs = {s1, s2, s3}
  Callers = {h1, h2}
  Days = 2
  Prompt = FALSE
  MaxTime = 3
  MaxGrants = 3
  Events = {"crash", "settles", "createFails", "verifyFails"}
SPECIFICATION PaySpec
CHECK_DEADLOCK FALSE
SYMMETRY Symmetry
INVARIANTS
  NothingForFree
  FailedGetsNothing
  GrantExcess
  NoFreeDays
