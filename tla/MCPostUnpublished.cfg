SPECIFICATION StoreSpec
CONSTANTS
  t1 = t1  t2 = t2  s1 = s1
  Request = {q1, q2}
  Post = {p1}
  Title = {t1, t2}
  Slug = {s1, s2}
  SlugOf <- MCSlugOf
  MaxTime = 2
  MaxFaults = 1
  NoPost = NoPost  NoSlug = NoSlug  NoRow = NoRow
CHECK_DEADLOCK FALSE
PROPERTY NeverUnpublished
