SPECIFICATION Spec
CONSTANT NServers = 4
INVARIANTS
  TypeOK
  OnlyTheFirstChoice
PROPERTIES
  NoUpServerLost
  UpServerReturned
