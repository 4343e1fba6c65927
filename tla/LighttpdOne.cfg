CONSTANTS
  Cons = {c1}
  None = None
  max_conns = 1
  max_fds = 4
  Reserve = 1
  FdsHigh = 3
  FdsLow = 3
  ConnsLow = 2
  max_read_idle = 0
  max_keep_alive_idle = 0
  max_write_idle = 0
  max_keep_alive_requests = 1
  kbytes_per_second = TRUE
  error_handler = TRUE
  HeaderLimit = 1
  Bodies = {0, 2}
  Reconnects = 1
  drops = FALSE
  authorizer = TRUE
  Accepts = 2
  Sigints = 1
SPECIFICATION Spec
INVARIANTS NothingForgotten CleanSlate
PROPERTY ImplementsCycle
