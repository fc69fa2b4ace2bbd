SPECIFICATION Spec
CONSTANTS
  EventIds = {e1, e2, e3}
  Devices = {d1, d2}
  Items = {x1}
  Tasks = {t1}
  Batch = 2
  MaxFailures = 1
  MaxRestarts = 0
  Free = Free
  NoCall = NoCall
  Gone = Gone
SYMMETRY Symmetry
INVARIANTS
  CursorComplete
  DevicesSeePrefix
  CreatedFirst
  InFlightSound
PROPERTIES
  DeletionFinal
