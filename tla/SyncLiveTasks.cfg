SPECIFICATION SilentSpec
CONSTANTS
  EventIds = {e1, e2}
  Devices = {d1}
  Items = {x1}
  Tasks = {t1, t2}
  Batch = 1
  MaxFailures = 1
  MaxRestarts = 0
  Free = Free
  NoCall = NoCall
  Gone = Gone
PROPERTIES
  CallsReturn
  RoundsEnd
