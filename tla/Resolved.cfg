SPECIFICATION ResolvedSpec
CONSTANTS
  Callers = {a, b, c}
  MaxBinds = 2
INVARIANTS OneBinding
PROPERTY WaitersReturn
