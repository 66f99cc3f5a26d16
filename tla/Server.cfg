SPECIFICATION Spec
CONSTANTS
  v1 = v1
  v2 = v2
  c1 = c1
  c2 = c2
  Versions <- MCVersions
  NoVersion = NoVersion
  SizeOf <- MCSizes
  MaxLine = 4
  CHAR_MAX = 15
  ADD = 4
  MAX_LINE_LEN = 20
  ReadDir <- MCReadDir
  Unreadable <- MCUnreadable
  Symbols <- MCSymbols
  Dirs <- MCDirs
  Clients = {c1, c2}
  NoClient = NoClient
  Lines <- MCLines
  Torn <- MCTorn
  Initial <- MCInitial
  Numerals <- MCNumerals
  Homes = {"absolute", "relative"}
  MaxLines <- MCMaxLines
  MaxTroubles = 1
INVARIANTS
  TypeOK
  PartNotTaken
PROPERTY ImplementsService
CHECK_DEADLOCK FALSE
