SPECIFICATION Spec
CONSTANTS
  Tasks = {t1, t2}
  Launch = t1
  MaxTaps = 2
  MaxEdits = 0
  MaxNews = 0
  MaxFailures = 0
INVARIANT OneBackgroundJob
CHECK_DEADLOCK FALSE
