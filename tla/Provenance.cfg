SPECIFICATION Spec
CONSTANTS
  w = w
  u = u
  Parties = {w, u, r, k}
  Relays = {r}
  Keyed = {r, k}
  HeldKeys = {k}
  PeerErrors = {unsupported}
  MaxHops = 3
  MaxVersion = 1
  MaxSubmits = 1
SYMMETRY Strangers
INVARIANTS VouchedByTheTrusted AuthorIsTheWriter BoundExactly
CHECK_DEADLOCK FALSE
