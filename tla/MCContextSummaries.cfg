\* Two threads that analyse r1 and r2 at the same time; every limit bites.
CONSTANTS
  Function = {"f", "g", "h"}
  Context = {"f1", "f2", "f3", "g1", "h1"}
  FunctionOf <- MCFunctionOf
  Root = {"r1", "r2"}
  Thread = {1, 2}
  External = External
  Calls <- MCCalls
  Value = {1, 2, 3}
  Local <- MCLocal
  Returns <- MCReturns
  Affine = {}
  ExactArguments = {}
  WithGlobals = {"g1"}
  TooLarge = {"h1"}
  Contest = FALSE
  maxContextPerFunction = 2
  maxTotalContextSummaries = 3
  maxContextAnalysisDepth = 2
  maxRecordedCallContexts = 5
  MAX_GLOBAL_CONTEXT_PER_FUNCTION = 1
  MAX_EXACT_SCALAR_CONTEXTS_PER_FUNCTION = 2
  MAX_EXACT_SCALAR_RECURSION_CONTEXTS_PER_FUNCTION = 2
  MAX_EXACT_SCALAR_RECURSION_DEPTH = 4
  MaxTotalReachableContextSummaries = 4
  MaxClears = 1
SPECIFICATION FairSpec
INVARIANTS TypeOK CacheConsistent SummariesSound LimitsHold
PROPERTIES PublishedOnce Termination
CHECK_DEADLOCK FALSE
