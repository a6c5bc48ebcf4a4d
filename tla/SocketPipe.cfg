CONSTANTS
  Callers = {m, s}
  Fds = {f1, f2, f3, f4}
  Ports = {p1, p2, p3, p4}
  None = none
SPECIFICATION Spec
INVARIANTS NoSocketLeaks EndsMeet
PROPERTY ImplementsPairs
