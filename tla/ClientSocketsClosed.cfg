\* One client is enough: it stays connected if its socket is not the one the
\* context was set to last, here because it never sent anything.
SPECIFICATION Spec
CONSTANTS
  Client = {c1, c2}
  MaxFd = 3
INVARIANTS
  ClientSocketsClosed
CHECK_DEADLOCK FALSE
