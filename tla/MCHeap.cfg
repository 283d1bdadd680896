SPECIFICATION HeapSpec
CONSTANTS
  u1 = u1
  u2 = u2
  User = {u1, u2}
  Request = {0, 3, 10}
  mem_size_aligned = 24
  SIZEOF_STRUCT_MEM = 3
  MIN_SIZE = 3
INVARIANTS
  HeapSound
  HeldIsUsed
  UsedMemCounted
PROPERTY
  HeapPromise
