\* All programs of MCPrograms.
CONSTANTS
  Func = {"f", "g", "h", "k"}
  Entry = "entry"
  Exit = "exit"
  functions <- MCFunctions
  Programs <- MCPrograms
SPECIFICATION Spec
INVARIANTS TypeOK ListedOnce ComponentsExact CalleesFirst ReachableListed
CHECK_DEADLOCK FALSE
