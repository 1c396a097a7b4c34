\* Two threads, two size classes with two blocks each, one block of malloc,
\* and an object pool of one, so that every list runs empty.
CONSTANTS
  Threads = {t1, t2}
  Classes = {3, 8}
  BlockCount = 2
  HeapCount = 1
  Sizes = {2, 5, 9}
  PtrSize = 4
  Idle = Idle
  PoolSize = 1
  ObjSize = 7
SPECIFICATION Spec
INVARIANTS PoolWhole HeapKept ObjectsWhole
PROPERTIES IsAllocator
CHECK_DEADLOCK FALSE
