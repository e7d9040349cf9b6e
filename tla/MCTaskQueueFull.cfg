CONSTANTS
  p1 = p1
  p2 = p2
  w1 = w1
  w2 = w2
  Worker = worker
  Nobody = nobody
  Exit = exit
  NoTask = none
  Producers <- MCProducers
  WorkTasks <- MCWorkTasks
  Capacity = 1
  MaxInserts = 3
SPECIFICATION FairSpec
PROPERTIES InsertReturns
CHECK_DEADLOCK FALSE
