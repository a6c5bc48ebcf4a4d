CONSTANT MaxPolls = 60
SPECIFICATION FairSpec
INVARIANTS ReturnAfterNode
PROPERTIES LoopHeedsCtrlC
CHECK_DEADLOCK FALSE
