SPECIFICATION RecordsSpec
CONSTANTS
  Participant = {a, b, c}  MaxListed = 3  MaxMessages = 2  NoConversation = NoConversation
  i1 = i1  i2 = i2  s1 = s1  s2 = s2  n1 = n1  user = user
  Instance = {i1, i2}
  Socket = {s1, s2, n1}
  HomeOf <- MCHomeOf
  Conversations = {s1, s2}
  Room = {room}
  UserRoom <- MCUserRoom
  MaxEvents = 2  MaxLost = 1
  NoSocket = NoSocket  Everyone = Everyone
  Notification = {m1, m2}  Sender = {p1, p2}  MaxMarks = 4
  NoNotification = NoNotification  NoNotificationRow = NoNotificationRow
  Upload = {w1, w2}  Key = {k1, k2, k3}  File = {pdf, png, exe}  Accepted = {pdf, png}
  Uploader = {author}  MaxFailures = 2  NoFile = NoFile  NoKey = NoKey
  Request = {q1, q2}  Post = {post1, post2}  Title = {h1}  SlugOf <- MCTitleSlugOf
  MaxTime = 2  MaxFaults = 1  NoPost = NoPost  NoRow = NoRow  NoSlug = NoSlug
  h1 = h1  post1 = post1
  news = news  newsBlank = newsBlank  other = other  newsSlug = newsSlug  otherSlug = otherSlug
  Asker = {r1, r2}  Tag = {t1, t2}  Comment = {e1, e2}
  Name = {news, newsBlank, other}  Trimmed <- MCTrimmed
  Slug = {newsSlug, otherSlug}  TagSlugOf <- MCTagSlugOf
  Author = {author}  AnyAuthor = {author, noAuthor}
  NoTagRow = NoTagRow  NoCommentRow = NoCommentRow
  MaxLog = 4  MaxRestarts = 2  NoOffset = NoOffset
CHECK_DEADLOCK FALSE
INVARIANTS
  RecordsTypeOK
  HeardOnceInOrder MissedOnlyIfLost
  MarksAgree DeletedNotificationsStayDeleted
  RefusedOnlyIfRacedOrUnchecked
  DuplicateTagsAreConflicts
  CommittedAreSettled
PROPERTIES StoredObjectsStayWhole PublicationLasts
