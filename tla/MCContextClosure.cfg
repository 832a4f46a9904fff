\* The contest client: one thread, the reachable contexts are visited.
CONSTANTS
  Function = {"a", "f", "g", "h"}
  Context = {"a1", "f1", "f2", "g1", "h1"}
  FunctionOf <- MCFunctionOf
  Root = {"r1", "r2", "r3"}
  Thread = {1}
  External = External
  Calls <- MCCallsOfContest
  Value = {1, 2, 3}
  Local <- MCLocal
  Returns <- MCReturns
  Affine = {"a1"}
  ExactArguments = {"f1", "f2"}
  WithGlobals = {}
  TooLarge = {}
  Contest = TRUE
  maxContextPerFunction = 2
  maxTotalContextSummaries = 4
  maxContextAnalysisDepth = 1
  maxRecordedCallContexts = 5
  MAX_GLOBAL_CONTEXT_PER_FUNCTION = 1
  MAX_EXACT_SCALAR_CONTEXTS_PER_FUNCTION = 2
  MAX_EXACT_SCALAR_RECURSION_CONTEXTS_PER_FUNCTION = 2
  MAX_EXACT_SCALAR_RECURSION_DEPTH = 4
  MaxTotalReachableContextSummaries = 2
  MaxClears = 1
SPECIFICATION FairSpec
INVARIANT ClosureSound
PROPERTY VisitsEnd
CHECK_DEADLOCK FALSE
