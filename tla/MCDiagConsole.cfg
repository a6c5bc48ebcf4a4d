CONSTANTS
  Main = main
  Workers = {w1, w2}
  NoThread = noThread
  DropNote = dropNote
  DIAG_BUF_SIZE = 2
  MsgLens = {1, 2}
  MaxWrites = 3
SYMMETRY WorkerSymmetry
SPECIFICATION Spec
INVARIANTS TypeOK DropOnlyWhenFull InOrderOnce LossIsAnnounced LogIsComplete
PROPERTIES ImplementsStream
CHECK_DEADLOCK FALSE
