CONSTANTS
  Main = main
  Workers = {w1, w2}
  NoThread = noThread
  DropNote = dropNote
  DIAG_BUF_SIZE = 2
  MsgLens = {2}
  MaxWrites = 2
SPECIFICATION FairSpec
PROPERTIES BufferedIsShown
CHECK_DEADLOCK FALSE
