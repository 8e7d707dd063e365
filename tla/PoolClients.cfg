\* Two callers of helpers, and a Shutdown, under fair scheduling. (Redis connections are
\* as SQL's, and RedisPoolHelper has no WithTransaction.)
SPECIFICATION FairClients
CONSTANTS
  None = none
  Callers = {p, q}
  Admins = {s}
  Conns = {c1, c2}
  MaxIdle = 1
  MaxActive = 1
  MaxWaiters = 0
  MinEvictableIdle = 0
  InitialSize = 0
  MaxRetries = 0
  Endings = {"deadline"}
  MaxNest = 3
  Cleans = FALSE
  HandleCloses = TRUE
  Kinds = {"sql", "grpc", "http"}
INVARIANTS PutBackOnce ClosedUnlessGiven
PROPERTIES ClosedUnderUser ClientsReturn
