SPECIFICATION CrashSpec
CONSTANTS
  EventIds = {1, 2}
  Devices = {d1, d2}
  Items = {x1}
  Tasks = {t1}
  Batch = 1
  MaxFailures = 0
  MaxRestarts = 0
  MaxCrashes = 1
  Free = Free
  NoCall = NoCall
  Gone = Gone
ACTION_CONSTRAINT Canonical
INVARIANTS
  OnlyPassedSkipped
PROPERTIES
  StreamResumes
  RowsFollowLogs
