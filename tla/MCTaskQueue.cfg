\* More tasks than threads, fewer tasks than threads, and no task at all.
CONSTANTS
  Task = {"small", "even", "equal", "large"}
  threadsNum = 3
  Priority <- MCPriority
SPECIFICATION FairSpec
INVARIANTS TypeOK RunsOnce QuietOnReturn
PROPERTIES ImplementsBatch Termination
CHECK_DEADLOCK FALSE
