CONSTANTS
  Null = Null
  u1 = u1
  p1 = p1
  p2 = p2
  Users = {u1}
  Payments = {p1, p2}
  Payer <- OnePayer
  Bodies <- CrossedBodies
  Subs = {s1, s2}
  Callers = {h1, h2}
  Days = 1
  Prompt = FALSE
  MaxTime = 0
  MaxGrants = 3
  Events = {}
SPECIFICATION PaySpec
CHECK_DEADLOCK FALSE
SYMMETRY Symmetry
INVARIANT OwnPaymentConfirmed
