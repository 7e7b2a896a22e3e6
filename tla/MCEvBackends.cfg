CONSTANTS
  f1 = f1
  f2 = f2
  regular = regular
  NFds = 2
  Files = {f1, f2, regular}
  Unpollable = {regular}
  Watchers = {w1, w2}
  EventSets <- Masks
  ReadySets <- AnyReady
  FirstFiles <- OneOrTwo
  none = none
  MaxOps = 4
  NoFile = none
  Backends = {"select", "poll", "epoll", "port", "kqueue"}
SPECIFICATION Spec
INVARIANTS
  TablesAgree
  NobodyDeaf
PROPERTIES
  ToldOfItsFile
  ReadyIsTold
CHECK_DEADLOCK FALSE
