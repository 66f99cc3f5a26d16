SPECIFICATION Spec
CONSTANTS
  v1 = v1
  v2 = v2
  v0 = v0
  Versions <- MCVersions
  NoVersion = NoVersion
  SizeOf <- MCSizes3
  MaxLine = 4
  INT_MAX = 7
  ULONG_MAX = 63
  NrSegm = 3
  NServers = 2
  MaxFd = 6
  ConnectModes = {"progress", "up"}
  Mirrors <- MCAgreed
  Deliveries = {FALSE}
  MaxFaults = 0
  MaxEdits = 0
INVARIANT NeverUnhandled
