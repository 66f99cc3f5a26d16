SPECIFICATION Spec
CONSTANTS
  v1 = v1
  v2 = v2
  v0 = v0
  Versions <- MCVersions
  NoVersion = NoVersion
  SizeOf <- MCSizes2
  MaxLine = 4
  INT_MAX = 7
  ULONG_MAX = 63
  NrSegm = 2
  NServers = 2
  MaxFd = 4
  ConnectModes = {"progress", "up", "greeted"}
  Mirrors <- MCAgreed
  Deliveries = {TRUE}
  MaxFaults = 1
  MaxEdits = 0
PROPERTY ErrorRestarted
CHECK_DEADLOCK FALSE
