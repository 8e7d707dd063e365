\* Queues of either type: two slots, or growing from two to four.
SPECIFICATION Spec
CONSTANTS
  Users = {p1, p2}
  Owner = p1
  Pollers = {p1}
  Items = {a, b}
  Zero = zero
  Capacities = {0, 2}
  DefaultLen = 2
  MaxLen = 4
  Ctx = {c1}
  NoCtx = nil
  EnqueueTimed = TRUE
  DequeueTimed = FALSE
SYMMETRY MCSymmetry
PROPERTY IsFifo
