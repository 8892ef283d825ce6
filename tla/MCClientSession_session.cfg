CONSTANTS
  b1 = b1
  b2 = b2
  NoBusiness = NoBusiness
  Businesses = {b1, b2}
  Primaries = {b1, NoBusiness}
  Requests = {q1, q2}
  MaxTokens = 3
  Worlds <- SessionWorlds
SYMMETRY SessionSymmetry
SPECIFICATION Spec
INVARIANTS TypeOK RefreshShared RedirectsSettle SessionAgrees
CHECK_DEADLOCK FALSE
