\* Two clients, one of which may get stuck, follow two services.  The channels hold two
\* updates and the first service publishes three: updates wait behind each other, some
\* find the channel full, and others come after one that was lost.
SPECIFICATION LiveSpec
CONSTANTS
  Clients = {c1, c2}
  Stuck = {c2}
  MaxServices = 2
  Publishers = {1}
  MaxUpdates = 3
  Cap = 2
INVARIANTS
  TypeOK
  NoOrphan
  SubsOpen
  SubsAttended
  Complete
PROPERTIES
  StopEnds
  LeavesStopped
