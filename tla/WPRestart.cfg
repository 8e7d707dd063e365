\* Two Shutdowns and two Starts of a pool of two workers, under fair scheduling.
SPECIFICATION FairSpec
CONSTANTS
  None = none
  Tasks = {t1}
  Workers = {u, v, w}
  Admins = {a, b}
  Priority <- MCLevel
  InitialWorkers = 2
  MinWorkers = 2
  MaxWorkers = 2
  UpAt = 1
  DownTenths = 3
  Word = 8
  MaxStarts = 2
  Cancels = TRUE
  Hurry = TRUE
INVARIANTS TaskKept CrashNeedsOvertaking
PROPERTIES StopChClosedOnce WorkEnds
