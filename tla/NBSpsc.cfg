\* One goroutine enqueues, one dequeues and peeks; two slots.
SPECIFICATION FairSpec
CONSTANTS
  Enqueuers = {p}
  Dequeuers = {c}
  Peekers = {c}
  Closers = {}
  Clearers = {}
  Items = {a, b}
  Zero = zero
  Capacity = 2
  DefaultLen = 1
  MaxLen = 1
  Ctx = {c1}
  NoCtx = nil
INVARIANT SpscInv
PROPERTIES ImplementsFifo CallsReturn
