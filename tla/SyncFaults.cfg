SPECIFICATION Spec
CONSTANTS
  EventIds = {e1, e2}
  Devices = {d1, d2}
  Items = {x1, x2}
  Tasks = {t1}
  Batch = 1
  MaxFailures = 1
  MaxRestarts = 1
  Free = Free
  NoCall = NoCall
  Gone = Gone
SYMMETRY Symmetry
INVARIANTS
  TypeOK
  OffsetsDense
  StampAgrees
  CursorComplete
  CreatedFirst
  AckedIsServed
  ServerRowRepairable
  StaleRowsExplained
PROPERTIES
  StreamIsAppendOnly
  SyncKeepsLog
  RowsGrow
  ImplementsReplication
