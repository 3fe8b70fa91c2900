SPECIFICATION FairCacheSpec
CONSTANTS
  t1 = t1  s1 = s1
  Request = {q1, q2}
  Post = {p1}
  Title = {t1}
  Slug = {s1, s2}
  SlugOf <- MCSlugOf
  MaxTime = 0
  MaxFaults = 1
  NoPost = NoPost  NoSlug = NoSlug  NoRow = NoRow
  ListKey = ListKey
CHECK_DEADLOCK FALSE
INVARIANTS CacheTypeOK StaleOnlyIfRaced
PROPERTY EventuallyFresh
