CONSTANTS
  Watchers <- All
  Kind <- Kinds
  Pri <- Pris2
  NumPri = 2
  Library = {"e1.io", "e1.to", "e2.io", "e2.to", "e3.sig", "e3.to", "o1.io", "o1.to", "s1.timer", "s2.timer", "fs_w"}
  Unreferenced = {"s1.timer", "s2.timer", "fs_w"}
  Programs <- Programs1
  Dummy = "pending_w"
  Events = {"e1", "e2", "e3"}
  IoSig <- Ios
  To <- Tos
  Persist = {"e2"}
  Onces = {"o1"}
  OnceIo <- OnceIos
  OnceTo <- OnceTos
  Stats = {"s1", "s2"}
  TimerOf <- Timers
  FsW = "fs_w"
  Local = TRUE
SPECIFICATION Spec
INVARIANTS
  LoopSound
  WaitsWhenQuiet
  FreedOnceIsGone
  ChangeIsNoticed
PROPERTIES
  SilencedIsNotCalled
  BreaksAsTold
  DeletedIsNotCalled
CHECK_DEADLOCK FALSE
