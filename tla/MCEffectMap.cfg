\* Two jobs: the pass maps are merged after the passes.
CONSTANTS
  Function = {"main", "wrap", "make", "leaf"}
  GlobalVar = {"limit"}
  Calls <- MCCalls
  Loads <- MCLoads
  PostOrder <- MCPostOrder
  AlwaysInlined = {"make"}
  InlineLimit = 3
  Jobs = 2
  Name <- MCName
  Unnamed = ""
  Box = "$BOX"
  Constructors = {"make"}
  Members <- MCMembers
  None = "none"
SPECIFICATION Spec
INVARIANTS TypeOK FlattenedIsClosure EffectsCovered
CHECK_DEADLOCK FALSE
