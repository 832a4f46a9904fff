\* The engine on loops, branches and lambdas, with early widening and cut-off.
CONSTANTS
  Shapes = {"loop", "diamond", "self", "entry"}
  MaxValue = 7
  HeadOps = {"inc", "any"}
  BodyOps = {"nop", "inc"}
  LambdaOps = {"inc"}
  Starts = {1, 5}
  LambdaAt = {"none", "b1", "b2"}
  Contexts = {TRUE, FALSE}
  WidenStart = 2
  MaxInqueue = 3
  NarrowLimit = 3
  FuncBody = "body"
  Function <- MCFunction
  Block <- MCBlock
  Lambda <- MCLambda
  State <- MCState
  Bottom <- MCBottom
  Store <- MCStore
  UnitBlocks <- MCUnitBlocks
  UnitEntry <- MCUnitEntry
  TopologicalSort <- MCTopologicalSort
  Successors <- MCSuccessors
  LambdasIn <- MCLambdasIn
  SkipAnalysis <- MCSkipAnalysis
  IsContextAnalysis <- MCIsContextAnalysis
  FuncEntryState <- MCFuncEntryState
  LambdaEntryState <- MCLambdaEntryState
  EnvAt <- MCEnvAt
  Effect <- MCEffect
  Targets <- MCTargets
  EdgeState <- MCEdgeState
  Join <- MCJoin
  JoinChanged <- MCJoinChanged
  Widen <- MCWiden
  ClearState <- MCClearState
  Narrow <- MCNarrow
  Gamma <- MCGamma
  FuncStores <- MCFuncStores
  Run <- MCRun
  Takes <- MCTakes
  Invoke <- MCInvoke
  Reach <- MCReach
  Depth <- MCDepth
SPECIFICATION FairSpec
INVARIANTS TypeOK WorklistExact Settled SoundResult LambdasOnce VisitsBounded
PROPERTY Termination
CHECK_DEADLOCK FALSE
