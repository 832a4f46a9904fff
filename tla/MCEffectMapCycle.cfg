\* Two functions that call each other.
CONSTANTS
  Function = {"even", "odd"}
  GlobalVar = {}
  Calls <- CycleCalls
  Loads <- CycleLoads
  PostOrder <- CyclePostOrder
  AlwaysInlined = {}
  InlineLimit = 2
  Jobs = 2
  Name <- CycleName
  Unnamed = ""
  Box = "$BOX"
  Constructors = {}
  Members <- CycleMembers
  None = "none"
SPECIFICATION FairSpec
PROPERTY Termination
CHECK_DEADLOCK FALSE
