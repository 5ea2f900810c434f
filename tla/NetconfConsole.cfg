SPECIFICATION ConsoleSpec
INVARIANTS
  OneRequestAtATime
  NobodyUsesADestroyedSession
  ThreadsEndBeforeMain
PROPERTIES
  ClosingEnds
  CallsReturn
  KeepalivesGoOn
  EmulatedEofReportsChild
  LeavingEnds
  ChildExitIsNoticed
CHECK_DEADLOCK FALSE
