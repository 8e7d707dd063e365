\* Two names and two queues, of one place or growing, used by two callers.
SPECIFICATION Spec
CONSTANTS
  Callers = {p1, p2}
  Names = {m, n}
  Queues = {o1, o2}
  None = none
  Items = {a, b}
  Zero = zero
  Capacities = {0, 1}
  DefaultLen = 2
  MaxItems = 3
SYMMETRY MCSymmetry
PROPERTIES EachIsFifo AcceptedWhileListed
