SPECIFICATION FairSpec
CONSTANTS
  MaxClient = 2
  MaxFd = 4
  MaxBacklog = 1
  Watchers = {w1, w2, w3}
  Acceptor = Acceptor
  NULL = NULL
INVARIANTS
  OneWatcherPerSocket
  EveryClientHasEntry
  PendingIsReady
PROPERTIES
  PeerCloseIsSeen
CHECK_DEADLOCK FALSE
