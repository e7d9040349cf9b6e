CONSTANTS
  s1 = s1
  s2 = s2
  core = core
  Servers = {s1, s2}
  NoRow = norow
  NoStatus = nostatus
  Absent = absent
  Files = {1, 2, 3, 4, 5, 6}
  Uses <- OneCore
  Incremental <- S1Incremental
  InitFiles <- OneOrNone
  InitBase = 1
  HttpThreads = {h1, h2}
  Asked <- AskedActs
  GuestEvents = {"off"}
  MaxOps = 3
  MaxMishaps = 1
SPECIFICATION Spec
INVARIANTS TypeOK NoRunawayMachine DisksOfMachinesExist FilesAreRecorded LockLostOnlyBy
PROPERTIES LaunchHasCores ImplementsServerLife  DeletedStop ImagesAreFinished
CHECK_DEADLOCK FALSE
