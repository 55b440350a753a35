CONSTANTS
  Null = Null
  u1 = u1
  p1 = p1
  p2 = p2
  Users = {u1}
  Payments = {p1}
  Payer <- OnePayer
  Bodies <- OwnBodies
  Subs = {s1, s2}
  Callers = {h1, h2}
  Days = 1
  Prompt = FALSE
  MaxTime = 0
  MaxGrants = 2
  Events = {}
SPECIFICATION PaySpec
CHECK_DEADLOCK FALSE
SYMMETRY Symmetry
INVARIANT GrantedOnce
