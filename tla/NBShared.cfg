\* Two goroutines that both enqueue and dequeue.
SPECIFICATION FairSpec
CONSTANTS
  Enqueuers = {p, q}
  Dequeuers = {p, q}
  Peekers = {}
  Closers = {}
  Clearers = {}
  Items = {a}
  Zero = zero
  Capacity = 2
  DefaultLen = 1
  MaxLen = 1
  Ctx = {}
  NoCtx = nil
INVARIANT BoundsWhenShared
PROPERTY NoLivelock
