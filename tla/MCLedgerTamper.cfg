CONSTANTS
  server = server
  replay = replay
  t1 = t1
  t2 = t2
  t3 = t3
  Process = {server}
  Thread = {t1, t2}
  ProcessOf <- OneProcess
  Payload = {"a", "b"}
  Forged = "forged"
  Nobody = "nobody"
  MaxRows = 3
  MaxTampers = 2
  MaxCrashes = 0
  MaxFailures = 1
SPECIFICATION Spec
INVARIANTS
  HeadCommits
  BreakIsNamed
SYMMETRY ServerThreads
CHECK_DEADLOCK FALSE
