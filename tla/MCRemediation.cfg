SPECIFICATION ToolsSpec
CONSTANTS
  Replicas <- MCReplicas
  Callers <- MCCallers
  replica <- MCReplica
  Ops <- MCOps
  MaxNow = 1
  MaxLag = 1
  Resources <- MCResources
  Known = {"pod", "rs", "deploy"}
  RefLists <- MCRefLists
  maxOwnerDepth = 2
  Objects = {1, 2, 3, 4, 5}
  Kind <- MCKind
  Size <- MCSize
  Matches <- MCMatches
  maxToolOutputBytes = 9
INVARIANTS OnePerReplica ToldWasActive WatchMissesNoEnd ChainIsLongestPath AnswerIsComplete
PROPERTIES WatchSeesEnd
