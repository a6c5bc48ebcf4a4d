CONSTANT MaxPolls = 60
SPECIFICATION FairSpec
PROPERTIES CtrlCExits
CHECK_DEADLOCK FALSE
