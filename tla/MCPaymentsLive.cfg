CONSTANTS
  Null = Null
  u1 = u1
  p1 = p1
  p2 = p2
  Users = {u1}
  Payments = {p1}
  Payer <- OnePayer
  Bodies <- UnnamedBodies
  Subs = {s1, s2, s3, s4}
  Callers = {h1, h2}
  Days = 1
  Prompt = FALSE
  MaxTime = 1
  MaxGrants = 4
  Events = {"settles", "createFails", "markPaid"}
SPECIFICATION FairPaySpec
CHECK_DEADLOCK FALSE
INVARIANT ProcessedIsGranted
PROPERTY PaidIsGranted
  SweepCatchesUp
