SPECIFICATION CrashSpec
CONSTANTS
  Main = main
  Threads = {main, worker}
  MaxLogs = 2
  MaxTime = 4
  Outcomes = {"saved", "notSaved", "exception"}
  Faulting = {loader, game}
  Signals = {SIGSEGV, SIGABRT}
  Blocks = 2
  Old = Old
  Hole = Hole
INVARIANTS  ReportInv
PROPERTIES CrashEnds  FaultKills
