CONSTANTS
  Cons = {c1, c2}
  None = None
  max_conns = 2
  max_fds = 4
  Reserve = 0
  FdsHigh = 3
  FdsLow = 3
  ConnsLow = 2
  max_read_idle = 0
  max_keep_alive_idle = 0
  max_write_idle = 0
  max_keep_alive_requests = 0
  kbytes_per_second = FALSE
  error_handler = FALSE
  HeaderLimit = 0
  Bodies = {0}
  Reconnects = 1
  drops = TRUE
  authorizer = TRUE
  Accepts = 1
  Sigints = 0
SYMMETRY Symmetry
SPECIFICATION Spec
INVARIANTS TypeOK ConnsArray FdAccounting EventsHaveHandlers
