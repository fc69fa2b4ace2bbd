SPECIFICATION SilentSpec
CONSTANTS
  Tasks = {t1, t2}
  Launch = t1
  MaxTaps = 3
  MaxEdits = 1
  MaxNews = 1
  MaxFailures = 1
INVARIANTS
  TypeOK
  RunningHasJob
  ChangeIsNotified
  ReconnectStarts
PROPERTIES
  BackgroundDelivers
  ReconnectDelivers
  StoppedJobsExit
  OfflineQuiesces
  EveryChangeIsRead
CHECK_DEADLOCK FALSE
