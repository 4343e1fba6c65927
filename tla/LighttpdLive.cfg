CONSTANTS
  Cons = {c1}
  None = None
  max_conns = 1
  max_fds = 4
  Reserve = 1
  FdsHigh = 2
  FdsLow = 2
  ConnsLow = 2
  max_read_idle = 0
  max_keep_alive_idle = 0
  max_write_idle = 0
  max_keep_alive_requests = 1
  kbytes_per_second = TRUE
  error_handler = FALSE
  HeaderLimit = 0
  Bodies = {0, 1}
  Reconnects = 0
  drops = FALSE
  authorizer = TRUE
  Accepts = 1
  Sigints = 1
SPECIFICATION FairSpec
PROPERTIES ConnectionsEnd GracefulEnds
