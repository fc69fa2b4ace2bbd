SPECIFICATION FairSpec
CONSTANTS
  EventIds = {e1}
  Devices = {d1}
  Items = {x1}
  Tasks = {t1}
  Batch = 1
  MaxFailures = 0
  MaxRestarts = 1
  Free = Free
  NoCall = NoCall
  Gone = Gone
PROPERTIES
  ServerRowsCatchUp
