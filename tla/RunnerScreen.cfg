SPECIFICATION ScreenSpec
CONSTANTS
  Tasks = {t1, t2}
  Launch = t1
  MaxTaps = 0
  MaxEdits = 0
  MaxNews = 1
  MaxFailures = 0
PROPERTY ScreenCatchesUp
CHECK_DEADLOCK FALSE
