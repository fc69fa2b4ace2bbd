SPECIFICATION Spec
CONSTANTS
  Phones = {p1, p2}
  Server = Server
  Ids = {1, 2, 3}
  Times = {1, 2}
INVARIANTS
  TiesKeepAuthoringOrder
CHECK_DEADLOCK FALSE
