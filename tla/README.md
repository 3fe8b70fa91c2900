# A TLA+ verification of nestjs-clean-architecture

The repository is a NestJS back end built in clean-architecture layers: HTTP and
WebSocket interfaces, use cases, domain aggregates, TypeORM/PostgreSQL
repositories, a Redis cache, a transactional outbox that feeds Kafka, and BullMQ
queues. These modules model its stateful parts as they are coded, check them with
TLC on small instances, and prove the central results with TLAPS for every
instance. Paths below are relative to the repository.

## 1. Inventory

| Component | State it keeps | Operations | Hard behaviour | What makes it correct |
|---|---|---|---|---|
| Outbox: `src/shared/domain-events/outbox/*` | table `domain_event_outbox` | `save`, `findUnpublished`, `markAsPublished`, `recordFailure`, `findFailedEvents`, `deleteOldPublishedEvents`; `OutboxProcessor.process/publishEvent` | several instances poll unlocked rows; each await may fail; crash between send and mark; cleanup beside all of it | nothing is lost; repeats only for a reason; a published row stays so; every job ends; healthy events get through as long as jobs come |
| `DomainEventPublisher`, `AggregateRoot` | events held by an aggregate in memory | `addDomainEvent`, `publishFromAggregate`, `publishAll`, `publish`, `clearDomainEvents` | `Promise.all` rejects while other saves run on; calls overlap; events are added while a call awaits | an event leaves its aggregate only into the table, and into it once, but for named cases |
| Kafka producer | connection | `send`, `sendBatch` | a rejected send may have been appended | errors reach the caller |
| Kafka consumer | handler map, started or not | `subscribe`, `startConsuming` | handler errors swallowed; late subscription | accepted messages are processed |
| BullMQ, e-mail queue | external queue | `EmailProcessor.process` (logs) | retries with backoff | - |
| Cache service | Redis keys with TTL | `get`, `set`, `delete`, `deletePattern` (no-op), `wrap` | store errors are swallowed | a failure degrades to a miss |
| Session cache | `session:<token>`, `user:sessions:<id>` | `saveSession`, `getSession`, `deleteSession`, `deleteUserSessions`, `updateSessionExpiration` | list read-modify-write, TTLs of two keys, mutual recursion | a revocation leaves no session, but for named races; every call returns |
| Post store | table `posts` | create, update, publish, archive, list | find/change/save of whole entities | a save is refused only for a reason; a published post stays published |
| Post cache | `post:<id>`, `post:slug:<slug>`, `posts:list:*` | cache-aside reads, `invalidateAll` | fill after invalidation, old slug, lists | an entry is stale only for a known reason, and not for ever |
| Comments, tags | tables | create, delete | checks that miss trimmed names and generated slugs, races with inserts | the checks find what the unique columns would refuse, but for named cases |
| Users | table `users`, cache `user:<id>` | create, update, soft delete, read | e-mail races, two spellings, soft deletion against the unique column, saves of old copies | an address is refused only for a reason; a deleted user stays deleted; only old copies lose updates |
| Authentication | JWTs at the client | login, refresh, logout, Google callback | tokens outlive the user; a login overlaps a deletion | a token names a stored account; nobody signs in to an account deleted before |
| Conversations | aggregate in memory | create, add/remove participant, messages, archive | one read flag for all readers; what `create` admits | the fields keep their shape (see 5 for what the messages and comments promise) |
| Notifications | table | save, `findPending`, `markAsSent`, `markAsFailed`, `delete` | several senders, unconditional updates, deletion in between | the columns agree; a deleted row stays deleted |
| Gateways, Redis adapter | rooms, connections, events between instances | join, leave, message, typing, read, broadcasts | instances, loss in Redis, expiring tokens | who was and stayed in a room hears each event once and in order, unless Redis lost it |
| File upload, storage | objects, sidecar files, metadata table | upload, download | two stores without a transaction; writes cut short | stored objects stay whole; an upload ends with its row |
| Migrations | the schema | `up` | unique columns, foreign keys | guards of every insert |
| Filters, pipes, HTTP guards, config, logger, i18n | none of their own | - | - | not modelled (see 7) |

Interactions: controllers call use cases, which call repositories; controllers also
call the cache services. Aggregates hand their events to `DomainEventPublisher`,
which writes the outbox table; the processor, woken by a BullMQ job, reads the table
and sends through the Kafka producer. The table is the only shared state between
publisher and processors, and between processors. Comments refer to rows of posts and
users. Tokens and cached users outlive changes of the users table. The instances of the
application share rooms through Redis. The session cache, the notification marks, the
conversation aggregate and `KafkaConsumerService.subscribe` have no caller in the
repository yet; they are modelled as a caller would find them.

## 2. Plan

1. `EventDelivery`, `Outbox`, `EventPublisher`, their proofs (done).
2. `PostStore`, `PostCache`, their proofs: concurrent find/change/save, cache-aside
   against write-then-invalidate (done).
3. `UserStore`, `Accounts`: soft deletion against the unique e-mail, Google sign-in, the
   cached user, the life of the tokens (done).
4. `Sessions`: session and list keys with TTLs and a clock (done).
5. `Conversation`, `Rooms`, `Notifications`, `Uploads`, `Consumer`, and `Discussions`
   beside the post store (done).
6. Theorems: every safety property of the passing runs for every instance, in the order
   outbox, publisher, posts, accounts, sessions, rooms, the other records, and the
   composition `MCRecords` (done). Left: nothing that the prover can state; liveness stays
   with TLC (see 6).

## 3. Modules

* `EventDelivery` - the abstract specification: messages are accepted once, owed
  until delivered, delivered at least once, and nothing else is delivered. `Progress`
  adds that healthy messages are delivered and acknowledged.
* `Outbox` - the table, the repository, the processor instances and the topic. One
  `process()` call is a job; each row of its batch is a task with its own program
  counter, which is `publishEvent` between two awaits:
  `sending -> marking -> fulfilled`, or through the catch block
  `reading -> writing -> rejected`. Every repository method is one definition or
  action with its name; `recordFailure` is two actions because it is two statements.
  Poll takes the oldest `BatchLimit` unpublished rows, whoever else has them; `Oldest` is
  ORDER BY and LIMIT, with any choice among rows of the same age. Nothing says when Poll
  happens: the code never adds a job.
* `EventPublisher` (extends `Outbox`) - aggregates, `publishFromAggregate` and the
  saves it starts. A save settles by itself; the first failed one rejects the call. As in
  the code, events may be added and further calls made while calls are awaiting; calls
  are numbered, and a row carries the number of the call that stores it. `owner`, `meanwhile` and `beside` are history.
* `PostStore` - the table `posts` and the requests over it. A request is a program
  counter and the objects in its hands; it moves at each `await`. TypeORM's `save` is
  two statements, `Load` (the row as it is now) and `Write` (the columns in which the
  object differs from what was loaded, `Merged`), so a request may write columns that
  it never meant to touch. `free` is history: the requests that have no excuse to meet the
  unique column, having looked the slug up, or kept their post's, and nobody having stored
  it since. `SlugCheck` is the check of both use cases, `Collides` the
  unique column. `Die` ends a request at any await: its process dies, or the driver
  rejects, before the commit (at `write`) or after it (at `saved`).
* `PostCache` (extends `PostStore`) - the handlers of `PostController` that read, with
  the fill after a miss as a step of its own, and the invalidation after a save, one
  key at a time. `CacheService` swallows the errors of the store: a failing `get` is a
  miss, a failing `set` or `delete` does nothing. `deletePattern` is a no-op in the
  code, so no action drops the lists but their TTL. `late` is history: the ids whose
  entry was out of date when it was filled, or outlived a save that nobody invalidated.
* `Discussions` (extends `PostStore`) - tags and comments. The checks of `CreateTagUseCase`
  are steps before the INSERT, and look for less than the unique columns forbid: the name
  as written, and the slug only if one was given. `surprised` is history: duplicates that
  met the database and not a check, although nobody wrote since. Posts are never removed
  from their table, so the foreign key of a comment can only fail by its author.
* `UserStore` - the table `users` and the requests that register, update and delete, in
  the manner of `PostStore`. Deleted rows stay in the table: finds skip them (`Alive`), the
  unique column does not (`Collides`), and `save` writes to them. Addresses are stored in
  lower case and looked up as they were written. `asked` and `overtaken` are history: what
  the caller wants changed, and whether the row has changed since it was copied; `free`
  is that of `PostStore`, for addresses looked up in the spelling they are stored in.
* `Accounts` (extends `UserStore`) - the reads of `UserController` with their cache entry,
  the invalidations, login, the Google callback and the tokens. A token is its claims.
  `RefreshTokenUseCase` signs the claims of any valid token again without looking at the
  user, so a refresh changes no state here, and a chain of refreshes ends only where
  `TokenExpires`. `LogoutUseCase` does nothing.
* `Sessions` - `SessionCacheService`, one cache call per step. `calculateTtl` returns
  seconds rounded down, the store takes milliseconds and 0 as "no time to live":
  `CalculateTtl` and `DiesAfter` keep both. A caller may give a time to live (`Ttl`, 0 for
  none). The two-way recursion of `getSession` and
  `deleteSession` is a counter of frames that stops counting at `MaxDepth`; if a get inside it
  finds the session saved anew, that frame deletes it and cuts the list, and the frames
  around it return one by one. `excused` is
  history: the users whose list was written from an old copy, expired, or lost a write.
* `Conversation` - the aggregate and its messages; methods are synchronous, so a method
  is an action.
* `Rooms` - both gateways over several instances. An emit is heard at home at once and is
  published once per other instance, in order; Redis may lose it there. `owed` is history:
  who was in the room at the emission and has not left since.
* `Notifications` - the table and the senders; a mark is an UPDATE and a find.
* `Uploads` - one upload from request to row, by either adapter, which may stop at any
  await; the file and its `.meta.json` are written one after the other, and either can be
  cut short. `CurrentUser` is the decorator as it is coded: it returns the whole user whatever
  field it is asked for, and `Fits` is what the column accepts.
* `Consumer` - one partition, the group's committed offset in the broker, and a process
  that starts, subscribes or not in time, handles, and dies.
* `MCOutbox`, `MCEventPublisher`, `MCPostStore`, `MCPostCache`, `MCAccounts`, `MCSessions`,
  `MCRecords` - instances for TLC. `MCRecords` holds seven parts that share no state and
  never call one another; `focus` picks the part a behaviour is about, so the instance is
  the sum of the parts and not their product; so does `MCAccounts`, of `Accounts` and
  `Sessions`. Within `MCRecords` `Discussions` moves over one stored
  post, all that comments read of that table, and `PostStore` moves by itself.
* `OutboxProofs`, `OutboxCounting`, `PublisherProofs` (outbox), `PostProofs` (post store,
  post cache, discussions), `AccountProofs` (users, accounts), `SessionProofs`, `RoomProofs`,
  `RecordProofs` (conversations, notifications, consumer, uploads, and `MCRecords` as a
  whole) - the theorems.

Operators with a bug (`BatchTaskMarkFirst`, `WithFailureSaved`, ...) stand at the top
of each module. Nothing uses them: put in the place of the definition they vary, each
makes a property fail, which shows that the property depends on that code.

What is abstracted in the outbox: payloads, topics, `lastError` and other columns without
influence; `published_at`, so that the cleanup may take any published row; `retryCount`
saturates at `MaxRetry`. `created_at` is the database's time at the start of the
transaction that stores the row: one of a set of stamps, chosen freely when the row
becomes visible, so that rows may tie and an older one may appear after a younger one.
`recordFailure`'s `findOne` and `update` see committed rows only.

Of a post, the author, the content, the view count, `createdAt` and `updatedAt` are left
out: they decide nothing. A title is a model value with the slug `generateSlug` makes of
it; several titles may make the same. `publishedAt` is the number of the publication, 0
for null. The lists are one key, and an entry there is only "what the table says now" or
not. `DELETE /posts/:id` is not an action: it archives an object in memory, saves nothing
and changes nothing. The domain events of a post are not modelled, since no code takes
them from the aggregate. The shape of an answer is not modelled (`findAll` answers a hit
with the posts, a miss with posts and pagination).

## 4. Runs

| Run | Instance | What it shows |
|---|---|---|
| `outbox_safety` | 2 events (one poisoned), 2 workers, batches of 1, 2 stamps, 2 faults | types, `NoEventLost`, `RetryCountSound`, `DuplicatesBounded`, `PublishedForGood`, `RefusedRowsBlock`, and the safety of `EventDelivery` |
| `outbox_unscheduled` | 1 event, 1 worker, no failure | finding 6 |
| `outbox_job_failure` | 1 worker, 1 fault | finding 1 |
| `outbox_retry_count` | 2 workers, 1 poisoned event | finding 2 |
| `event_publisher` | 1 aggregate, 2 events (one poisoned), 2 calls, 1 worker, batches of 2, 1 fault | `LostOnlyIfAddedMeanwhile`, `SecondRowHasAReason`, `EveryJobSettles`, `HealthyEventsPublished` |
| `posts_unpublished` | 1 post, 2 requests | finding 3 |
| `posts_cache` | 1 post, 2 requests, 2 slugs, 1 fault, no publication | types, `StaleOnlyIfRaced`, `EventuallyFresh` |
| `accounts`, users | 2 users, 2 requests, 2 addresses (one in two spellings), 1 fault, 1 live token | `AddressRefusedForAReason`, `DeletedForGood`, `UnaskedOnlyFromOldCopies`, `StaleUserOnlyIfRaced`, `TokensNameAccounts`, `DeletedCannotSignIn` |
| `accounts`, sessions | 1 user, 2 tokens, 2 calls, 3 instants, times to live calculated and given, 1 failing cache call | `SessionTypeOK`, `RevocationLeavesNone` |
| `session_expired` | 1 token, 1 call, no failure | finding 4 |
| `session_revocation` | 2 tokens, 1 call, lifetimes of 2 and 4 units, no failure | finding 7 |
| `records`, conversation | 3 people, lists of 3, 2 messages | the types, within `RecordsTypeOK` |
| `records`, rooms | 2 instances, 2 chat sockets, 1 notification socket, 2 events, 1 loss | `HeardOnceInOrder`, `MissedOnlyIfLost` |
| `records`, notifications | 2 rows, 2 senders, 4 marks | `MarksAgree`, `DeletedNotificationsStayDeleted` |
| `records`, uploads | 2 requests, 3 keys, 3 files (one refused), 2 failures, both adapters | `StoredObjectsStayWhole` |
| `records`, posts | 2 posts, 2 requests, 1 title, 2 slugs, 2 publications, 1 fault | `RefusedOnlyIfRacedOrUnchecked`, `PublicationLasts` |
| `records`, discussions | 1 post, 2 requests, 2 tags, 3 names (one with blanks), 2 slugs, 2 comments | `DuplicateTagsAreConflicts` |
| `records`, consumer | 4 messages, 2 restarts | `CommittedAreSettled` |
| `upload_refused` | the uploads to the local storage | finding 5 |

Bounds: two workers give every pair of steps of two holders of one row, which is what
the races need; two faults allow a failure inside the handling of another (a failed
mark, then a failed `recordFailure`), or one per worker. In `outbox_safety` a batch holds
one of two rows, so that limit and order decide which: the two stamps put either row
first, or neither. In `event_publisher` two events and two calls make up to four rows of
one age for batches of two, of which the refused ones may fill a batch, or leave one place
or two. `MaxFaults` bounds errors and crashes in a behaviour; liveness is therefore stated
for finitely many of them. The symmetry of workers is used in the safety run only, that of
requests and tokens in `accounts`, which checks no liveness.

Two requests give each race of the post store and cache its two parties (two checks, a
check and a title's slug, a reader and a writer); the slug of the title and one more let
a post be renamed and renamed back. `posts_cache` has no publication because publish
and update are the same to the cache (a save, then the same invalidation); the theorem
covers both. One fault is enough for a lost invalidation; a second one only repeats it.

Every race in `accounts` is between two requests: a check and an insertion, a copy and a
save, a fill and an invalidation, a login and a deletion. Two spellings of one address
and one other address give each way an e-mail can be taken. The sessions of `accounts`
live one unit, and their keys as long, longer (a time to live of 3 was given), or for ever
(a calculated 0); in `session_expired` two units are one second, so that a lifetime of one
unit rounds down to 0. Two calls give every pair of a save, a deletion and a revocation. Four
messages and two restarts let a consumer commit, lose what it had not committed and
read it again. Two events are enough to be heard out of order.
`MaxDepth` bounds only the count of frames, not the recursion.

Fairness: every await settles (`TaskStep`; kafkajs and the database driver have timeouts)
and a settled job returns (`Finish`). Nothing is assumed about callers' retries, crashes
or the cleanup, and nothing about jobs: no code of the repository adds one to the
queue `domain-events-outbox` (finding 6). `HealthyEventsPublished` therefore is an
implication, about a deployment in which somebody calls `process()` again and again
(`[]<><<\E w \in Worker : Poll(w)>>_vars` is its first hypothesis). Its second hypothesis is
that fewer refused rows wait than a batch holds; `RefusedRowsBlock` says what happens
otherwise. In `event_publisher` also every save settles and a call whose saves are done
returns. For `session_expired`: every cache call settles (`CallSteps`); without that assumption no call
need return. For `posts_cache`: every await of a request settles (`Step`), and every key with a TTL
expires; `HasTtl` says which have one, and all do. Nothing is assumed of new requests.
`EventuallyFresh` concludes only for posts that stop changing; the TTL is what it rests
on for lists and for the slug a post had before, which nothing else ever drops.

## 5. Findings

1. `outbox_job_failure`: `process()` uses `Promise.allSettled`, so the error
   `publishEvent` re-throws "to trigger BullMQ retry mechanism" never reaches BullMQ,
   and the integration test that expects `process` to reject contradicts the code.
   Events are still retried by the next poll, if there is one.
2. `outbox_retry_count`: the specification increments in the database, the code writes
   a count from an earlier read, so concurrent failures are undercounted. What remains
   true is `RetryCountSound`.
3. `posts_unpublished`: `UpdatePostUseCase` finds a draft, `PublishPostUseCase` publishes
   the post, and the update saves its whole object: the post is a draft again, without
   `publishedAt`, although its publication was reported. The data model's transitions
   lead nowhere from published to draft. An update that changes nothing does it too.
4. `session_expired`: the comment of `getSession` promises `undefined` for an expired
   session, but an expired session that is still cached makes `getSession` and
   `deleteSession` call each other for ever. Such a session is no rarity: a lifetime below
   one second has a key that never goes.
5. `upload_refused`: `@CurrentUser('sub')` returns the whole user object, since the
   decorator ignores its argument; the INSERT into the column `uploaded_by uuid` is always
   rejected, so no upload ends with the documented 201, and its object stays in the
   storage. `Rejects` and `Dropped` are not needed for it: nothing fails but that INSERT.

6. `outbox_unscheduled`: the data model, the research notes and the task list say that the
   outbox is polled every 5 seconds, but the repository only registers the queue and its
   processor. No job is ever added, so no stored event is ever sent.
7. `session_revocation`: the comment in `saveSession` wants the list to live as long as the
   longest session; the code gives it the time to live of the one saved last. Once it has
   expired, `deleteUserSessions` deletes nothing of the sessions that still live. The two
   saves and the revocation need not overlap.

Smaller disagreements met while modelling, without a run. Those of the conversation
aggregate are single synchronous calls: `create` of a direct conversation counts the list
before it adds the creator, so three people fit where the aggregate's own message says
"Direct conversations must have exactly 2 participants", and a group whose list names the
creator twice has one; the comment of `getUnreadCount` promises the count of a specific
user, but a message has one read flag for all, so the first reader lowers everybody's
count. `Conversation` models the methods as they are coded, and no property claims the
messages or the comment. Further: `DELETE /posts/:id` answers 204 and saves nothing; cache
TTLs of "one hour" are 3.6 seconds (`PostCache` and `Accounts` let an entry expire at any
time, so no property depends on it); `markAsFailed` of the notification repository leaves
`sentAt` as it was, while the entity's clears it, and `MarksAgree` allows a failed row
with a time of sending; the URL of a local file has slashes that the route `:key` does not
match; the signed S3 URL is stored although it ends after an hour; the password of an
account made by Google is hashed twice, so nobody can use it.

## 6. Proofs

`OutboxProofs` proves, for any sets of events, attempts and workers and any bounds
that satisfy `OutboxAssumption`, the type invariant, `NoEventLost`, `RetryCountSound`,
`PublishedForGood`, `DeletedOnlyIfPublished`, and that `Outbox` implements the safety
part of `EventDelivery`. None of the invariants is inductive alone: that a marked row
has its message needs that a task in `marking` has already sent; that the retry count
is at most the recorded failures needs that what a task in `writing` has read is at
most them, now. `IInv` is the conjunction of those facts; it is proved to hold
initially and to be preserved by each action (one step per action), and each theorem
follows from it. `DeletedOnlyIfPublished` is proved and checked by no run: TLC sees the
same through `NoEventLost` and the refinement.

`OutboxCounting` proves `DuplicatesBounded` with a budget: the copies of a message, plus
the workers that still may send it, are at most the workers plus the faults as long as the
row is unpublished; the counting uses the library's theorems on finite sets. `RefusedRowsAreInTheWay` is the other theorem of the module: a batch that leaves out a row
holds as many rows that are no younger, so a batch's worth of refused rows that are older
than every healthy row is the only batch there is (`NothingBehind`); refused rows are
neither marked nor deleted (`PoisonStays`), and no row changes its age (`BlockStays`). It
assumes nothing of the order in which rows are committed: a healthy row from an older
transaction that appears later ends the blockade, and the property says so.

`PublisherProofs` proves, for any number of aggregates, overlapping calls and faults,
`PTypeOK`, `LostOnlyIfAddedMeanwhile`, `SecondRowHasAReason`, and that the outbox behind the
publisher still loses nothing and still implements the safety of `EventDelivery`. A call
that awaits has a row in use for every event that its aggregate still holds, but for those
added since it began (`CallsHaveRows`); so what is cleared when all its saves have settled
has a row, or was added meanwhile. A call that resolved has left no event with a row in
the aggregate (`ResolvedCallsAreOver`), so a later call cannot store it again; only one
that had copied the events before can. The invariant of `OutboxProofs` is a conjunct and
its lemmas are used again, since the worker's steps are those of `Outbox`.

`PostProofs` proves, for any sets of requests, posts, titles and slugs, the types of both
post modules, `RefusedOnlyIfRacedOrUnchecked` and `StaleOnlyIfRaced`. `Table` is the part of
the invariant both need: a request about to write, invalidate or fill holds a whole row,
its post exists, and no action takes a row away; without it `Merged` could not be shown to
return a row. That a save which looked its slug up is not refused needs what each request
knows between its check and its second statement (`KeepsItsSlug`), whatever
other requests store in between, and that the unique column keeps a post's own slug its
own. `StaleOnlyIfRaced` needs besides that only existing posts are cached
(`CachedExists`): an insertion could otherwise make an entry stale. `WriterChange` says what
a writer's step is to the cache: whoever had saved stays so, and the only row that changes
is that of the request that has saved now. `DuplicateTagsAreConflicts` is proved of
`DiscussionSpec`, in which the posts move as well; it needs what a request that nobody has
overtaken knows after each of its checks (`Unraced`).

`PublicationLasts` says what remains true beside finding 3. A publication can be undone by
a request that found the draft before it; once every request that holds the post holds it
published or archived, no later request, in whatever order the two statements of its save
come, makes it a draft. The proof needs that an object is in hand before it is saved, and
that `Merged` takes the status from the object or from the row (`SettledRowStays`,
`SettledCopiesStay`).

`AccountProofs` proves `AddressRefusedForAReason`, `DeletedForGood`, `UnaskedOnlyFromOldCopies`, the
types, `StaleUserOnlyIfRaced`, `TokensNameAccounts` and `DeletedCannotSignIn` of the one
specification `AccountSpec`. The invariant has two parts. `Table` says of a request that it
has what its next await needs, and that a copy nobody has overtaken differs from the row
in nothing but what its caller asked for (`TrueCopyIn`); a lost update and a stale
user then come only from copies that were overtaken. `Outside` is about the cache and the
tokens, and rests on no row ever leaving the table. `KeepsItsAddress` is to addresses what
`KeepsItsSlug` is to slugs, for the finds that see living rows only.

`SessionProofs` proves, for any number of calls and users, any lifetimes, any times to live
that callers give and any length of the clock's unit, `SessionTypeOK` and
`RevocationLeavesNone`. A revocation deletes what the list names, so the list must cover the
sessions that can be read (`ListsCoverSessions`, a lemma with the exceptions of
`RevocationLeavesNone`). The list is read at one await and written at another, so that is
inductive only together with `Knows`: until it is overtaken a call knows the list it goes
by, that a token it takes off the list has no key or is about to be listed anew, and
which sessions it still has to delete. A revocation is complete because the last of these
is empty when it ends. What the theorem excludes (a list that expired or was written from
an old copy) is what finding 7 is about.

`RoomProofs` proves `RoomsTypeOK`, `HeardOnceInOrder` and `MissedOnlyIfLost` for any instances,
sockets and rooms and any number of losses. The order in which a socket hears is kept by
the order in the channels (`ChannelsOrdered`), and by every channel holding only events later
than what its instance has heard of the same publisher (`ChannelsAhead`). What a socket
is owed reaches it because it is still in the audience (`OwedCanHear`).

`RecordProofs` has five parts. *Conversations:* the types, for participants and lists of
any number. *Notifications:* `MarksAgree` and
`DeletedNotificationsStayDeleted` are proved together (`Marks`), because a
delivered notification is one whose row is there or is gone, and only so is a new row
known to be undelivered. *The consumer:* `CommittedAreSettled` needs `Progress`: while a
process consumes, everything from where it began up to its position is settled and the
committed offset lies between the two, so a commit joins the earlier runs without a gap.
It holds for a log of any length and any number of restarts. *Uploads:*
`StoredObjectsStayWhole` needs that requests have keys of their own and that each knows, at
each await, whether the object and the sidecar under its key are not there, cut or whole
(`KnowsObject`); the files left cut are counted, and are no more than the failures. `NoUploadIsRecorded`
is finding 5 for every instance: `file_metadata` stays empty in every behaviour.
*The composition:* `RecordsInv` is the conjunction of what every part keeps true; a step of
`RecordsNext` is a step of at most one part and a stutter of the others (`OnePartMoves`), so
`RecordsInv` is inductive, `RecordsTypeOK` follows, and a behaviour of `RecordsSpec` is one
of each part (`RecordsImplementParts`). Posts and discussions may begin there with a stored
post, from which `StoreInit` does not start; `PostRecords` states their properties of the
composition itself.

The proofs needed three assumptions on constants to say more than they did. `Attempt` is
`1..n` for some n (`PublisherAssumption`), since the calls of an aggregate are numbered; `None` is
neither a session nor a list (`SessionAssumption`), as `undefined` is neither in the code;
and a user object is not itself an id (`UploadAssumption`), as the ids are strings.
`PostAssumed` says of `MCRecords` that the one post of its initial table is a post with a
title. TLC evaluates all of them.

Only model-checked: the liveness properties `EveryJobSettles`, `HealthyEventsPublished` and
`EventuallyFresh`, since fairness and ENABLED are beyond the prover. Every other property
of a passing run is a theorem. The candidates for inductive invariants were checked by TLC
on the instances of the runs before they were proved.

## 7. Not modelled

Filters, interceptors, pipes, configuration, logging, i18n, Swagger and DTO
validation have no state of their own; nor have the HTTP guards, whose only effect that
matters elsewhere, the user object of a request, is in `Uploads`. The OAuth exchange,
BullMQ, Kafka, Redis, socket.io and PostgreSQL are external: only what the code sees of
them (a promise that resolves or rejects, with the effect or without it; an event that is
delivered or not) is in the models. The e-mail processor only logs.

`CacheService.wrap` and `clear`, `sendBatch`, `findFailedEvents`, `updateUrl`, and the
delete methods of the storage have no caller; list endpoints (users, tags, comments,
posts by tag) and downloads read and change nothing. The tables `sessions`,
`conversations`, `messages` and `post_tags` are created by migrations and used by no code.
