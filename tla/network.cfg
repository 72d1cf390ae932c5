SPECIFICATION NetworkSpec
CONSTANTS
  N = 2
  Pid = 4711
  Targets <- OneOrAll
  Sends <- SendsOf0
  Breakable <- From0To1
  Finishers = {0}
  hello = hello
  MaxSize = 24
  MaxLinkSize = 5
INVARIANTS
  TypeOK
  GapFree
  NothingLost
  RunsConnected
  HandedOnce
  LinksAreTree
PROPERTIES
  SocketsDeliver
  EveryoneReached
CHECK_DEADLOCK FALSE
