CONSTANTS
  p1 = p1
  p2 = p2
  w1 = w1
  w2 = w2
  Worker = worker
  Nobody = nobody
  Exit = exit
  NoTask = none
  Producers <- MCProducers
  WorkTasks <- MCWorkTasks
  Capacity = 2
  MaxInserts = 4
SPECIFICATION FairSpec
INVARIANTS TypeOK LostOnlyWhenFull
PROPERTIES WedgedIsFinal AcceptedIsProcessed ChannelSpec
CHECK_DEADLOCK FALSE
