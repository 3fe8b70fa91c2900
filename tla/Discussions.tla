----------------------------- MODULE Discussions -----------------------------
(***************************************************************************)
(* Comments on posts, and tags: two tables whose requests look first and   *)
(* write afterwards, with a constraint of the database behind the look.    *)
(*                                                                         *)
(* A tag is looked up by the name as it was written, and by its slug only  *)
(* if the caller gave one; it is stored with the trimmed name and with a   *)
(* slug made from the name if none was given.  Both columns are unique.    *)
(* A comment refers to a post and an author by foreign keys; its removal   *)
(* ignores how many rows the DELETE took.  The posts are those of module   *)
(* PostStore; users are never removed from their table, so that their set  *)
(* is a constant here.                                                     *)
(***************************************************************************)
EXTENDS PostStore

CONSTANTS
  Asker,          \* requests in progress at a time
  Tag, Comment,   \* ids
  Name, Trimmed,  \* tag names as written, and name -> stored form
  TagSlugOf,      \* generateSlug: name -> slug
  Author,         \* the rows of the users table
  AnyAuthor,      \* the ids a token may carry
  NoTagRow, NoCommentRow

ASSUME DiscussionAssumption ==
  /\ Trimmed \in [Name -> Name] /\ TagSlugOf \in [Name -> Slug]
  /\ \A n \in Name : Trimmed[Trimmed[n]] = Trimmed[n] /\ TagSlugOf[Trimmed[n]] = TagSlugOf[n]
  /\ Author \subseteq AnyAuthor
  /\ NoTagRow \notin [name : Name, slug : Slug]
  /\ NoCommentRow \notin Post \X AnyAuthor

VARIABLES
  tags,           \* the table: id -> row
  comments,       \* the table: id -> <<post, author>>
  asker,          \* request -> what it does next, with what
  surprised,      \* history: requests answered by a database error, not a check,
                  \* although nobody wrote a tag since their check
  removed         \* history: comments that were deleted

discussionVars == <<tags, comments, asker, surprised, removed>>

TagRow == [name : Name, slug : Slug]
Quiet == [pc |-> "quiet"]
AskerAt(q, pc) == asker[q].pc = pc
Answered(q) == asker' = [asker EXCEPT ![q] = Quiet]
StoredTags == {t \in Tag : tags[t] # NoTagRow}
StoredPosts == {p \in Post : posts[p] # NoRow}
StoredComments == {c \in Comment : comments[c] # NoCommentRow}

-----------------------------------------------------------------------------
(* Variants with a bug, to show that the properties can fail. *)

\* findBySlug looks at the names.
TagSlugTakenAsName(s) == \E t \in StoredTags : tags[t].name = s

-----------------------------------------------------------------------------
(* CreateTagUseCase and TagRepository *)

NameTaken(n) == \E t \in StoredTags : tags[t].name = n
TagSlugTaken(s) == \E t \in StoredTags : tags[t].slug = s

\* Tag.create
NewTag(n, s) == [name |-> Trimmed[n], slug |-> IF s = NoSlug THEN TagSlugOf[n] ELSE s]

\* findByName; a hit is answered 409.
CheckName(q, n, s) ==
  /\ AskerAt(q, "quiet")
  /\ ~NameTaken(n)
  /\ asker' = [asker EXCEPT ![q] =
       [pc |-> IF s = NoSlug THEN "insert" ELSE "slug", name |-> n, slug |-> s, raced |-> FALSE]]
  /\ UNCHANGED <<tags, comments, surprised, removed>>

\* findBySlug, if a slug was given; a hit is answered 409.
CheckSlug(q) ==
  /\ AskerAt(q, "slug")
  /\ asker' = [asker EXCEPT ![q] = IF TagSlugTaken(@.slug) THEN Quiet ELSE [@ EXCEPT !.pc = "insert"]]
  /\ UNCHANGED <<tags, comments, surprised, removed>>

\* The unique columns of the table.
Clashes(row) == \E t \in StoredTags : tags[t].name = row.name \/ tags[t].slug = row.slug

InsertTag(q, t) ==
  LET row == NewTag(asker[q].name, asker[q].slug) IN
  /\ AskerAt(q, "insert")
  /\ tags[t] = NoTagRow
  /\ ~Clashes(row)
  /\ tags' = [tags EXCEPT ![t] = row]
  /\ asker' = [r \in Asker |->
       IF r = q THEN Quiet
       ELSE IF asker[r].pc \in {"slug", "insert"} THEN [asker[r] EXCEPT !.raced = TRUE]
       ELSE asker[r]]
  /\ UNCHANGED <<comments, surprised, removed>>

\* The INSERT is rejected, and the request answered 500.
ClashOnInsert(q) ==
  /\ AskerAt(q, "insert")
  /\ Clashes(NewTag(asker[q].name, asker[q].slug))
  /\ surprised' = IF asker[q].raced THEN surprised
                  ELSE surprised \union {<<asker[q].name, asker[q].slug>>}
  /\ Answered(q)
  /\ UNCHANGED <<tags, comments, removed>>

-----------------------------------------------------------------------------
(* CreateCommentUseCase, DeleteCommentUseCase and CommentRepository *)

\* PostRepository.findById; none is answered 404.
FindPost(q, p, a) ==
  /\ AskerAt(q, "quiet")
  /\ p \in StoredPosts
  /\ asker' = [asker EXCEPT ![q] = [pc |-> "comment", post |-> p, author |-> a]]
  /\ UNCHANGED <<tags, comments, surprised, removed>>

\* Comment.create: a new id each time, not one that was deleted.
NewComment(c) == c \notin StoredComments \union removed

\* The foreign keys of the table.
Refers(p, a) == p \in StoredPosts /\ a \in Author

SaveComment(q, c) ==
  LET p == asker[q].post  a == asker[q].author IN
  /\ AskerAt(q, "comment")
  /\ NewComment(c)
  /\ comments' = IF Refers(p, a) THEN [comments EXCEPT ![c] = <<p, a>>] ELSE comments
  /\ Answered(q)
  /\ UNCHANGED <<tags, surprised, removed>>

\* findById; none is answered 404.
FindComment(q, c) ==
  /\ AskerAt(q, "quiet")
  /\ c \in StoredComments
  /\ asker' = [asker EXCEPT ![q] = [pc |-> "remove", comment |-> c]]
  /\ UNCHANGED <<tags, comments, surprised, removed>>

\* DELETE, answered 204 also when another request has deleted it meanwhile.
DeleteComment(q) ==
  LET c == asker[q].comment IN
  /\ AskerAt(q, "remove")
  /\ comments' = [comments EXCEPT ![c] = NoCommentRow]
  /\ removed' = removed \union {c}
  /\ Answered(q)
  /\ UNCHANGED <<tags, surprised>>

\* The process dies, or a statement fails.
GiveUp(q) ==
  /\ ~AskerAt(q, "quiet")
  /\ Answered(q)
  /\ UNCHANGED <<tags, comments, surprised, removed>>

-----------------------------------------------------------------------------
DiscussionInit ==
  /\ tags = [t \in Tag |-> NoTagRow]
  /\ comments = [c \in Comment |-> NoCommentRow]
  /\ asker = [q \in Asker |-> Quiet]
  /\ surprised = {}
  /\ removed = {}

DiscussionStep ==
  \E q \in Asker :
    \/ \E n \in Name, s \in Slug \union {NoSlug} : CheckName(q, n, s)
    \/ CheckSlug(q) \/ ClashOnInsert(q)
    \/ \E t \in Tag : InsertTag(q, t)
    \/ \E p \in Post, a \in AnyAuthor : FindPost(q, p, a)
    \/ \E c \in Comment : SaveComment(q, c) \/ FindComment(q, c)
    \/ DeleteComment(q) \/ GiveUp(q)

Discussing ==
  \/ DiscussionStep /\ UNCHANGED storeVars
  \/ StoreNext /\ UNCHANGED discussionVars

DiscussionSpec == StoreInit /\ DiscussionInit /\ [][Discussing]_<<storeVars, discussionVars>>

-----------------------------------------------------------------------------
(* Properties *)

AskerState ==
  {Quiet}
  \union [pc : {"slug", "insert"}, name : Name, slug : Slug \union {NoSlug}, raced : BOOLEAN]
  \union [pc : {"comment"}, post : Post, author : AnyAuthor]
  \union [pc : {"remove"}, comment : Comment]

DiscussionTypeOK ==
  /\ tags \in [Tag -> TagRow \union {NoTagRow}]
  /\ comments \in [Comment -> (Post \X Author) \union {NoCommentRow}]
  /\ asker \in [Asker -> AskerState]
  /\ surprised \in SUBSET (Name \X (Slug \union {NoSlug}))
  /\ removed \in SUBSET Comment

\* A duplicate that no other request wrote meanwhile is refused by the checks with 409
\* and not by the unique columns with 500, unless its name was written with blanks or
\* its slug was made from the name: those reach the database.
DuplicateTagsAreConflicts == \A k \in surprised : k[1] # Trimmed[k[1]] \/ k[2] = NoSlug

=============================================================================
