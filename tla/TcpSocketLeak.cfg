CONSTANTS
  f1 = f1
  f2 = f2
  f3 = f3
  NoFd = NoFd
  None <- NoFd
  FDs <- MCFDs
  Backlog <- MCBacklog

SYMMETRY MCSymmetry
SPECIFICATION Spec
INVARIANT NoFdLeak
