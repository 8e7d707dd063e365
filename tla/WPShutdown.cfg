\* One worker or two, a scaler, a Shutdown that may give up.
SPECIFICATION Spec
CONSTANTS
  None = none
  Tasks = {t1, t2}
  Workers = {s, u, v, w}
  Admins = {a}
  Priority <- MCOneHigh
  InitialWorkers = 2
  MinWorkers = 1
  MaxWorkers = 2
  UpAt = 1
  DownTenths = 3
  Word = 8
  MaxStarts = 1
  Cancels = FALSE
  Hurry = TRUE
SYMMETRY MCSymmetry
INVARIANTS TaskKept CountersAgree MaxWorkersKept ShutdownDrains
