SPECIFICATION SessionSpec
CONSTANTS
  u1 = u1
  Call = {c1}
  Token = {k1, k2}
  Owner = {u1}
  OwnerOf <- MCOwnerOf
  Lifetime = {2, 4}
  Ttl = {0}
  Second = 2
  DefaultTtl = 1
  MaxTime = 2
  MaxSwallowed = 0
  MaxDepth = 2
  None = None  NoToken = NoToken
CHECK_DEADLOCK FALSE
PROPERTY RevocationDeletesAll
