SPECIFICATION AccountsSpec
CONSTANTS
  a = a  aUpper = aUpper  b = b  q1 = q1  q2 = q2  u1 = u1
  Request = {q1, q2}
  User = {u1, u2}
  Spelling = {a, aUpper, b}
  LowerCase <- MCLowerCase
  Password = {w1}
  Generated = w1
  MaxFaults = 1
  MaxTokens = 1  Viewed = {u1}
  NoUser = NoUser  NoSpelling = NoSpelling  NoPassword = NoPassword  NoRow = NoRow
  k1 = k1  k2 = k2
  Call = {q1, q2}
  Token = {k1, k2}
  Owner = {u1}
  OwnerOf <- MCOwnerOf
  Lifetime = {1}
  Ttl = {0, 3}
  Second = 1
  DefaultTtl = 1
  MaxTime = 2
  MaxSwallowed = 1
  MaxDepth = 2
  None = None  NoToken = NoToken
CHECK_DEADLOCK FALSE
SYMMETRY Symmetric
INVARIANTS
  AccountTypeOK AddressRefusedForAReason StaleUserOnlyIfRaced TokensNameAccounts
  SessionTypeOK
PROPERTIES
  DeletedForGood UnaskedOnlyFromOldCopies DeletedCannotSignIn
  RevocationLeavesNone
