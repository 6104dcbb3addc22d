SPECIFICATION Spec
CONSTANTS
  b1 = b1  b2 = b2  b3 = b3  f = f  g = g
  Depth = 2
  Ids = {b1, b2}
  Fns = {f, g}
  MaxCalls = 2
  MaxChanges = 1
SYMMETRY Symmetry
INVARIANTS TypeOK ListsAreKept HandledOnce StoppedIsStopped NoneMissed
