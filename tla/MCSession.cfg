CONSTANTS
  Users = {u1}
  Tokens = {t1, t2, t3}
  Calls = {c1, c2}
  None = None
  Faults = {"fails", "answerLost"}
  Configs = {f1, f2}
  Nodes = {n1}
  Lands = {l1}
  Changes = {c1, c2}
  Asks = {c1, c2}
  MaxPending = 2
  Nil = Nil
SPECIFICATION BrowserSpec
CHECK_DEADLOCK FALSE
SYMMETRY Symmetry
INVARIANTS
  RotationExcess
  LateIssueBounded
  BlockRevokes
  StoredTokenServes
PROPERTIES
  CreatedIsShown
