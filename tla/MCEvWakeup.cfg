CONSTANTS
  a1 = a1
  a2 = a2
  usr = usr
  p1 = p1
  p2 = p2
  anyPid = anyPid
  one = one
  any = any
  Asyncs = {a1, a2}
  Usr = usr
  Chld = chld
  ChildWatchers = {one, any}
  WaitsFor <- Waits
  AnyPid = anyPid
  Pids = {p1, p2}
  Traced = {one}
  Senders = {s1, s2}
  Scenarios <- Groups
  MaxSends = 2
  MaxOps = 1
  PipeW = pipe_w
  PendingW = pending_w
  NoOne = noone
SPECIFICATION Spec
INVARIANTS NoLostWakeup
PROPERTIES EachStatusIsTold SentIsDelivered EveryChildIsReaped
CHECK_DEADLOCK FALSE
