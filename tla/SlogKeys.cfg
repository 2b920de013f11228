SPECIFICATION GroupsSpec
CONSTANTS
  l1 = l1
  l2 = l2
  k1 = k1
  k2 = k2
  Names = {group}
  Keys = {k1, k2}
  Loggers = {l1, l2}
  MaxHandlers = 4
  MaxDepth = 3
  MaxAttrs = 1
INVARIANT KeysAreOwn
CHECK_DEADLOCK FALSE
