CONSTANTS
  Timers = {1, 2, 3, 4, 5, 6, 7, 8, 9, 10}
  Periodics = {11, 12}
  PendingW = PendingW
  Afters = {0, 2}
  Repeats = {0, 2}
  FirstFields <- TwoBranches
  Jumps <- BackAndForth
  MinTimejump = 4
  MaxBlocktime = 3
  MaxClock = 3
  MaxOps = 2
SPECIFICATION Spec
INVARIANTS
  HeapsSound
  EarlierFirst
  NobodyOverslept
  PeriodicsInReach
PROPERTIES
  TimersOutliveSuspend
CHECK_DEADLOCK FALSE
