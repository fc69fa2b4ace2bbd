SPECIFICATION FairSpec
CONSTANTS
  EventIds = {e1}
  Devices = {d1, d2}
  Items = {x1}
  Tasks = {t1}
  Batch = 1
  MaxFailures = 1
  MaxRestarts = 0
  Free = Free
  NoCall = NoCall
  Gone = Gone
PROPERTIES
  RowsCatchUp
