\* Two callers, the cleaner and two Shutdowns, on a pool of one connection.
SPECIFICATION Spec
CONSTANTS
  None = none
  Callers = {p, q}
  Admins = {s, t}
  Conns = {c1, c2, c3}
  MaxIdle = 1
  MaxActive = 1
  MaxWaiters = 1
  MinEvictableIdle = 0
  InitialSize = 1
  MaxRetries = 1
  Endings = {"deadline", "cancel"}
  MaxNest = 1
  Cleans = TRUE
  HandleCloses = FALSE
SYMMETRY MCSymmetry
INVARIANTS OneOwner CountsExact OvershootBounded NothingLeftOpen
