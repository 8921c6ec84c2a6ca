SPECIFICATION Spec
CONSTANTS
  Fibers = {f1, f2}
  Cancellable = {f1}
  Threads = {}
  Notifiers = {n1}
  Buf = 1
  NoTask = NoTask
INVARIANT FrameOutlivesPointer
