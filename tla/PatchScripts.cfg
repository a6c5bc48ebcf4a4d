CONSTANTS
  Workspaces = {{"bootstrap", "lwip"}, {"bootstrap", "libzt"}, {"phy", "restore", "peerinfo"},
                {"bootstrap", "phy", "keepalive"}, {"auth", "hotpath"}, {"ldn", "check", "stubs"},
                {"check", "stubs"}, {"libzt", "lwip", "restore"}}
  MaxStarts = 4
  MaxMishaps = 1
SPECIFICATION Spec
INVARIANTS
  Converges
  EmptiedIsNoticed
  LossIsReported
  RepeatIsHarmless
  TracesCompile
  LinkedOnce
  AnchorCheckSuffices
CHECK_DEADLOCK FALSE
