CONSTANTS
  server = server
  replay = replay
  t1 = t1
  t2 = t2
  t3 = t3
  Process = {server, replay}
  Thread = {t1, t2, t3}
  ProcessOf <- TwoProcesses
  Payload = {"a", "b"}
  Forged = "forged"
  Nobody = "nobody"
  MaxRows = 3
  MaxTampers = 0
  MaxCrashes = 1
  MaxFailures = 1
SPECIFICATION Spec
INVARIANTS
  TypeOK
  ChainIntact
  NoForkInProcess
  ReportIsTrue
PROPERTY
  ImplementsAppendLog
VIEW Unnoted
SYMMETRY ServerThreads
CHECK_DEADLOCK FALSE
