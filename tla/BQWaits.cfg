\* A bounded queue; waiting with an enqueue timeout and without a dequeue timeout.
SPECIFICATION FairSpec
CONSTANTS
  Procs = {p1, p2}
  Pollers = {p1}
  Items = {a}
  Zero = zero
  Capacity = 2
  DefaultLen = 2
  MaxLen = 2
  EnqueueTimed = TRUE
  DequeueTimed = FALSE
  Ctx = {c1}
  NoCtx = nil
  EnqCtx = {c1, nil}
  DeqCtx = {c1}
  PromptPark = TRUE
INVARIANTS TypeOK RingInv CrashNeedsCancel
PROPERTY WaitsEnd
