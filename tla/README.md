# Fedimovies in TLA+

Specifications of the fedimovies server (a fork of Mitra: an ActivityPub server
with a Mastodon API, written in Rust over PostgreSQL), the configurations that
model-check them with TLC, and theorems about them that TLAPS checks. Paths are
relative to the repository.

    tlc -config Migration.cfg MCMigration.tla
    tlapm IncomingQueue_proofs.tla

`PROJECT.json` lists the components, the runs with their properties, for each
property a change of the model that breaks it, the source lines that each
definition stands for, the hazards and the theorems.

## 1. The system

One server process and one command line tool share a PostgreSQL database.

    Mastodon API views ──┐                                ┌── remote servers
    inbox (one at a time)┼──> database <── scheduler task ┤   (deliveries, fetches)
    mitractl ────────────┘    tables        5 s, 300 s, 1 h

- **API views** (`src/mastodon_api`) run concurrently on several workers, each
  with a connection of its own. A view runs a few transactions, then often
  enqueues an activity.
- **The inbox** (`src/activitypub/views.rs`, `receiver.rs`) holds one mutex while
  it handles a request. Some activities are handled at once (Accept, Add, Follow,
  Like, Reject, Remove), the others are stored in the job table.
- **The scheduler** (`src/job_queue`) is one task that runs, one after the other,
  whichever periodic tasks are due: the two queue executors, the deletion of
  extraneous posts, empty profiles and unused emojis, the movie mentions.
- **mitractl** (`fedimovies-cli`) is another process with a connection of its own.

So the order of transactions is arbitrary, except that there is one inbox handler
and one periodic task at a time. Nothing raises the isolation level: statements
run at READ COMMITTED. Outside the database there are the media directory, which
the database knows nothing of, and the copies that other servers keep.

### Components, their state, and what makes them correct

| Component | State | Operations | Correct if |
|---|---|---|---|
| Job table (`background_jobs`) | rows Queued or Running, `scheduled_for`, `updated_at` | enqueue, claim a batch, delete; stalled rows are claimed again after an hour | a row is claimed by one batch at a time; none is forgotten |
| Outgoing queue (`queues.rs`, `deliverer.rs`) | job payload: recipients with `is_delivered`, `failure_count`; `unreachable_since` of actors | enqueue, deliver to each recipient, retry with backoff, record reachability | every recipient is tried, within the retry budget, not again once it has answered |
| Receiver and authentication (`receiver.rs`, `authentication.rs`, signature checks) | none; inbox mutex | check signatures, refuse, ignore, handle, queue | nobody acts for an actor but the actor; what an actor signs is not refused |
| Incoming queue (`queues.rs`) | job payload: the activity, `is_authenticated`, `failure_count` | handle in batches with a time limit, retry | no accepted activity is lost; a handled one is handled again only after an interruption |
| Follows (`relationships`, the Accept, Add, Follow, Reject, Remove and Undo handlers) | `relationship`, `follow_request`, three counters per profile | follow, request, accept, reject, unfollow, subscribe, unsubscribe | counters exact; request and relationship agree |
| Account migration (`handlers/move.rs`, `settings`) | a list of followers made beforehand | move followers | the counters and requests stay right; the request to undo is there |
| Posts and reactions (`posts`, `reactions`, statuses views, note handlers) | `post`, `mention`, `post_link`, `post_reaction`, four counters | create, reply, repost, react, edit, delete with the context, prune extraneous threads | counters exact; no dangling row; what users touched is not pruned |
| Audience (`posts/queries.rs`, `helpers.rs`, views, builders) | posts with visibility, relationships of all types | read a status, a thread, every list; deliver Create, Announce, Delete | the rules agree; threads complete; what is sent goes to whom it is addressed |
| Notifications and movie mentions | `notification`; the open transaction of the task | notify; repost what mentions a movie | nobody notified twice; each mention reposted once, and none left for ever |
| Users, invites, OAuth, movie accounts | `user_account`, `user_invite_code`, codes, tokens | register, create, look up, log in, revoke | a name has one account; a code makes one user |
| Profiles and actor copies (`profiles`, `actors`, `fetcher`) | `actor_profile` at home, its copy on another server | edit, send Update(Person), import, refresh | the copy becomes the profile |
| Object fetcher (`fetcher/helpers.rs`) | remote documents, work list of `import_post` | import a post with its ancestors and links | replies attached to the posts they name; a thread is imported whatever of it is known |
| Attachments, media files | files by content hash, rows that name them | upload, fetch, attach, delete, remove orphans | a file stays while a row names it, and goes when none does |
| Custom emojis | `emoji`, `profile_emoji`, the copy in `actor_profile` | import, renew, prune | the copy is what the tables say |
| Subscriptions, invoices | `subscription`, `invoice` | what is left of them after the payment monitor was removed | — |
| Configuration, documents, validators, IPFS, signing | none of their own | read, format, parse | — |

`PROJECT.json` has the same list with files and the status of each.

### What is hard here

- **Interrupted steps.** A retry is an INSERT of a new job and a DELETE of the old
  one; a file is saved before its row and removed after it; an edit is committed
  before its activity is enqueued. `?` or a crash can come between any two.
- **Rows claimed for too long.** A batch of ten handlers with ten minutes each
  lasts longer than the hour after which its rows count as stalled.
- **Order of activities.** Follow is handled at once and Undo is queued and retried;
  Accept, Reject and Update are repeated by remote servers, in any order.
- **Overlapping transactions** on the same rows, and locks taken in opposite orders.
- **Counters and copies kept by hand** next to deletions that cascade.
- **Rules written twice**, in SQL for lists and in Rust for single posts.
- **Lists used later.** Periodic tasks and moves list what to do, then do it
  without looking again.
- **Whole rows written back** from what a request has read at its beginning.
- **Remote documents of any shape**, fetched by a work list with local state, by
  several callers at once.

The section "hazards" of `PROJECT.json` has them with their lines.

## 2. The modules

| Module | Models | A step is |
|---|---|---|
| `JobTable` | the statements on `background_job`, as operators on a table | — |
| `OutgoingQueue` | producers, outgoing executor and deliverer, mitractl | a statement or a request |
| `Inbox` | the decision of `receive_activity`, over all that can be found out about a request | — (a pure decision) |
| `AtLeastOnce` | what a job queue promises, abstractly | an item accepted, dealt with, dropped |
| `IncomingQueue` | incoming executor, over `JobTable` and `Inbox`; implements `AtLeastOnce` | a statement or a handler |
| `Relationships` | follows, requests, subscriptions, profiles | a transaction |
| `Migration` | account moves beside all of `Relationships` | a transaction |
| `FollowTransactions` | the transactions of `Relationships` on one pair of profiles | a statement, with locks |
| `Posts` | posts, reposts, links, mentions, reactions, extraneous threads | a transaction |
| `Audience` | visibility, every list and thread, recipients | a transaction; reads are operators |
| `Mentions` | notifications of posts, `handle_movies_mentions` | a transaction; a statement of the task |
| `Accounts` | registration, invites, movie accounts, OAuth codes and tokens | a statement of `create_user`; a transaction |
| `ActorCopies` | a profile and its copy on another server, Update(Person) in transit | a step between two awaits |
| `ImportPost` | `import_post`: the work list of the fetcher, storing a thread | an iteration, an object stored |
| `MediaFiles` | media directory and the rows that name its files | a statement or a file operation |
| `CustomEmojis` | emojis of remote profiles and their copies | a statement's reading, its writing, or a COMMIT |
| `..._proofs` | proofs about `Relationships` (with `Migration`), `CustomEmojis` and `ActorCopies` (all in `Profiles_proofs`), `IncomingQueue` (with `Inbox` and `ImportPost`), `OutgoingQueue`, `FollowTransactions` (with `Mentions`), `Accounts`, `Posts`, `Audience`, `MediaFiles` | — |
| `MC...` | the instances for TLC | — |

**Job table.** A row keeps its status and payload; of the timestamps the model keeps
what the queries compare: whether `updated_at` is older than `JOB_TIMEOUT`
(`stalled`), and the sequence `due` of the rows whose `scheduled_for` has passed, in
that order. `Eligible` is the inner SELECT of `get_job_batch`, queued rows first,
`BatchOf` the set of ids that its UPDATE returns.

**Outgoing queue.** `Enqueue` stands for every view and handler that ends in
`OutgoingActivity::enqueue`. The executor is a program counter (load, send, requeue,
report, delete) with the job and the flags it has read; each action is one statement
or one request. `Abort` is a propagated database error as well as a crash: both leave
the rows and lose the memory. `CliDeleteProfile` and `CliEnqueue` are the two steps of
`mitractl delete-profile`.

**Inbox and incoming queue.** A request is the set of facts the receiver can find out:
type, owner of the key of the HTTP signature, outcome of the two signature checks, what is
known or blocked, whether the activity is relevant. `Ignored`, `Refused`, `Outcome`
follow the order of the checks in `receive_activity`. `ActorSigned` is the truth that
`is_authenticated` should express. `QueuedKinds` is what can come into the queue; a row of
`IncomingQueue` carries it through all retries. A handler is reduced to how it ends: Ok,
an error (retried unless it is the fetcher's recursion error), or the timeout (not retried).
Its effects are the business of the other modules.

**Relationships and Migration.** One action per transaction of
`relationships/queries.rs`, used by the actions for views and handlers. `inbox` is the
memory of the Follow handler between its two transactions; it excludes the other direct
handlers (the mutex), not the queued ones, the views or mitractl. `prune` is the list of
`delete_empty_profiles`. `Migration` adds the memory of a move: the two accounts, the
followers still to do, and the one between its unfollow and its follow. A database
error that only ends a transaction changes nothing and is not an action.

**FollowTransactions.** What `Relationships` takes as atomic is split here into SQL
statements, for a user who follows a remote actor. A table of one row is its committed
value, the session that has written it without committing, and what that session has
written: enough for READ COMMITTED on unique keys. Sessions block, deadlock, are
cancelled and lose their connection. The sessions of the user are API requests and the
unfollow of a move. The history variables `overtaken` and `orphan` record the one overlap that
leaves a relationship without its request (section 4).

**Posts.** A post has its author, the post it replies to, the post it reposts, whether it
is public, and its counters; of mentions and links only those are kept that
`find_extraneous_posts` looks at (mentions of users, links in posts of users). `Context`
is the recursive query of `delete_post` and `delete_profile`, as the least set closed
under replies and reposts. `found` is the list of `delete_extraneous_posts`.

**Audience.** Posts have one of the four visibilities, mentions, links and the set of
servers they were sent to. The writes are those of `create_status`, `handle_note`,
`reblog`, follow, mute and so on; the reads are operators on the state, one per query
(`HomeTimeline`, `PostsByAuthor`, `GetThread`, ...) and one per view that uses them
(`GetStatus`, `Timelines`, `AccountStatuses`, `ObjectView`, `Outbox`, `AtomFeed`). `CanView`
and `Visible` are the two implementations of the rule, in Rust and in SQL.

**Mentions.** The task has its open transaction as a state: the mentions read, the
reposts and notifications it has written and nobody sees yet, the rows these lock.
Views and handlers go on meanwhile. A movie account may come into being with the note
that mentions it. `private` are the mentions of the batch whose posts are not public: the task
passes them over and leaves their notifications.

**Accounts.** A request is a process between the check of its invite code and the COMMIT
of `create_user`, whose statements are actions: LOCK TABLE, the check of the name (a
LIKE pattern, in which an underscore matches anything), the use of the code, the insert.
The same transaction is reached from registration, the command line, webfinger and
mentions of movies.

**ActorCopies.** Both ends run this software. At home a request reads the row, writes the
whole row, then reads the recipients and enqueues Update(Person); away, the copy is
written by Update(Person) and by lookups of unknown or old actors. Activities in transit
are a set: reordered, repeated, lost. The executor handles a job, and only then deletes it, so an
Update can be applied again later; other importers look up and refetch meanwhile, and store what they
fetched before. `excused` marks what the code cannot promise (below).

**ImportPost.** An object stands for its id; `world` says what the servers answer: the id of
the object at a URL (another one if it is redirected), its parent and its links. A call is a
record of the local variables of `import_post`; `held` is `maybe_object`. One action per way
an iteration of the loop ends, then one per object that `handle_note` stores or rejects.
`Fail` is any other error, a timeout or a restart, at any point; what is stored stays. The
history variable `disturbed` marks the calls that had one, or during which another call has
stored something.

**MediaFiles.** A file is its name, which is the hash of its content. A request saves the
file, then inserts the row; or it deletes rows in a transaction that ends with
`find_orphaned_files`, commits, then removes the files. Rows that a transaction has deleted
are seen by others until COMMIT. `raced` and `leaked` are history variables that record
which of the two known ways to go wrong a file has gone. Ids of attachments are ULIDs: in the
model an id is free again when no request remembers the row that had it.

**CustomEmojis.** The tables and the copy are separate variables; `update_emoji` and
`delete_emoji` are two statements each, outside of a transaction; `handle_emoji` fetches
between lookup and write. `update_profile` is a transaction: it locks the profile, replaces its rows
and computes its copy, all of which others see at COMMIT (`UpdateProfile`, `CommitProfile`). The
statement `update_emoji_caches` computes copies from what is committed when it starts and writes them
when it has the locks, so it is two steps (`UpdateEmojiRest`, `EmojiUpdated`). `copies` are those
computed and not written; `late` records which of these others have overtaken, `missed` what was
written all the same, or not at all since the session stopped.

## 3. What the runs show

| Run | Instance | Question |
|---|---|---|
| `outgoing_queue` | a note for two actors and a Delete(Person); 2 retries; 1 abort | is every recipient tried, once, and does the queue drain? |
| `incoming_queue` | two requests of every kind the receiver can queue, batch of 2, 1 retry, 1 abort | is any activity lost, or handled for somebody who did not sign? |
| `migration` | two users, a remote actor, one move at a time | do rows, requests and counters stay together? |
| `follow_transactions` | two API requests and two inbox requests at a time, repeated | ... also statement by statement? |
| `posts` | a user, a remote actor, three posts and two reactions at a time | are counters and deletions exact? |
| `audience` | two users and a remote actor, three rows of posts and relationships, one mention or link | who reads, lists and receives what? |
| `mentions` | a user, a remote actor, a movie; two notes, 1 crash | who is notified, what is reposted? |
| `accounts` | two requests at a time, two codes, four names, two accounts | do names and codes stay unique? |
| `actor_copies` | one editor, two edits; two importers | does the copy become the profile? |
| `import_post` | two importers, three URLs, a local post, at most one link, 2 fetches | is a thread imported, and rightly? |
| `media_files` | one content; two posts, two attachments, a profile, two emojis; two requests | is a file kept as long as, and only as long as, it is used? |
| `custom_emojis` | an actor, two emojis of two versions, two sessions | is the copy of the emojis up to date? |

**outgoing_queue.** No recipient of an enqueued activity drops out of the queue before
its attempts are used up (`NoRecipientForgotten`); a recipient that has answered is
asked again only because of an abort (`NoNeedlessRedelivery`); whoever is marked
unreachable has failed every attempt of an activity (`UnreachableEarned`); the activities
of existing users leave the queue (`QueueDrains`).

**incoming_queue.** `NoActivityLost` and `QueueDrains` say the same of received activities;
`OriginRespected` says of every row, at every attempt, that it acts for its actor only if the
actor signed; and the queue implements `AtLeastOnce` (`DeliversAtLeastOnce`), with the
rows as `waiting` and the settled activities as `done`.

**migration.** `CountersExact`, `RequestAgrees` and `RemoteFollowHasRequest` in every
interleaving of the transactions of all views, handlers, commands, the periodic task and
moves, each transaction taken as a whole. The state space is finite without any bound on the
number of operations.

**follow_transactions.** With overlapping statements the counter is still exact
(`CounterExact`), an accepted request still has its relationship
(`AcceptedHasRelationship`), and every request is answered although transactions
deadlock (`Answered`). `RequestToUndo`: an unfollow that has deleted anything has deleted the request,
which two callers `expect` of it, except for a relationship whose request an earlier
unfollow has deleted, overtaken by an Accept between its two statements.

**posts.** `PostCountersExact` (four counters against the rows), `TypeOK` (no row refers to
a missing one, so the computed context covers what is deleted), `FoundAreExtraneous`
(compared with a definition from the posts upwards to their roots).

**audience.** `ListsAgreeWithStatus` compares the two implementations of the visibility rule
through the views that use them, and asks that other servers can fetch each post of this server that
an outbox names as an object or a feed shows (of reposts it asks nothing, see section 4); `ThreadComplete` compares `get_thread` with a conversation
defined by roots and ancestors; `EmbeddedLoaded`: no list fails for want of an embedded post;
`DeliveryAgrees`: deliveries are those of the addresses, and a Delete reaches whoever was sent
the post; `RepliesDoNotWiden` is the comment "audience can't be expanded".

**mentions.** `NotifiedOnce`, `AnnouncedOnce` and, with a fair task, `MentionServed`: the mention of a
public note is dealt with, except while newer mentions of notes that are not public, which the
task never removes, fill the batch.

**accounts.** `OneAccountPerName` rests on LOCK TABLE, since no index covers names regardless
of case; `InvitesSpentOnce` relates each code to the users ever created with it.

**actor_copies.** `CopyCurrent` for a copy fed by Update(Person), `CopyConverges` for one that is
looked up again and again. The first excuses edits before the follow, lost activities, requests that end between
edit and activity, images that were not fetched, and documents stored over a newer copy: an Update
that was overtaken or repeated, or a lookup that fetched before the edit and stored after its Update.

**import_post.** A reply is attached to the post it names (`ParentsTrue`); a call that succeeds
has stored the requested post, and a call that nothing disturbs imports every thread that has
no links, ends, and is within the limit, whatever an earlier or concurrent call has left of
it (`ThreadImported`).

**media_files.** `FilesKept` and `NothingLeaks`, up to the ways `raced` and `leaked` record.

**custom_emojis.** `CacheAgrees`: wrong in a copy can only be an emoji that is between the two
statements of `update_emoji` or `delete_emoji`; one that was when its session stopped; and the emojis of a profile
whose copy was computed before, and committed after, a change by another session.

`TypeOK` is checked where it says more than types (foreign keys that no transaction may
violate half-way); elsewhere it documents the state.

### Bounds

Two activities and two recipients are the least with partial success and with rows that
compete for a batch; two retries the least with a first, an intermediate and a last
attempt of a delivery (the code allows three: the comparison is the same), one the least
with a retry of an incoming activity (the code allows two; the proofs hold for any number);
one abort can come between any two statements. Freed job ids are used again, so the number of
rows at a time is bounded by four and the number of operations is not. Three profiles give
all kinds of pairs: local–local, both directions of local–remote, and a third party whose
counters must stay as they are. Three posts give a thread with a reply and a repost of the
reply (the context needs two rounds), two threads of which one goes, a link and its target;
two reactions, one that is counted off and one that stays. Ids of deleted posts are used
again unless the list of the periodic task still holds them (in the code ids are never used
again). Three rows in `audience` give a conversation of three, or a reply with a relationship
on which its visibility depends. Two notes in `mentions` compete for the batch order and can
mention the same movie, one of them privately; with a batch of two (50 in the code), two mentions of notes
that are not public fill it, and fewer leave room. Two accounts and four names give a name that
differs in case only, one matched by the pattern only, and one found by the beginning of its
title. Two edits give an older and a newer Update in transit. Three URLs give a thread of
three posts, a redirection in it, or two posts that share a parent; two fetches put the
limit (50 in the code) between them, and all worlds of this size are initial states. One
content suffices for files, since files of different names do not interfere; any subset of the unused
attachments can be old enough to be deleted. Two sessions suffice for the overlaps of refreshes: two of
`update_profile` and `update_emoji`, or one of these and the deletion of unused emojis.

### Fairness

- The scheduler loop has a tick of 5 seconds and no early exit, and a request or a handler
  is cut off by a timeout: weak fairness of the executors and of the mention task.
- Time passes: weak fairness of a row becoming due, of `JOB_TIMEOUT` and of a day passing.
  An hour is not over before an idle executor has had its 720 ticks, which is the guard of
  `JobTimeout`: an executor can be overtaken by it only during requests or handlers.
- Aborts and crashes are bounded and not fair: a server that always crashes does nothing.
- PostgreSQL queues waiting transactions for a row in the order of arrival, so a waiting
  statement is not passed over for ever: strong fairness of each session's statement.
  Deadlock detection always runs: weak fairness.
- In `ActorCopies` requests end and somebody looks the actor up again and again (weak fairness, of all
  importers together). That now and then one of these fetches and one of these stores succeeds, actor and image
  alike, is assumed of the network, and that a job which is handled again and again is deleted in the end
  is assumed of the database (strong fairness): nothing can converge without them.

Batches that delay other tasks of the scheduler loop, and panics that end it, are not in the
models (see the hazards).

## 4. Known faults

Met while modelling. Most are excluded from a property by an exception that its comment
names, and removing the exception makes TLC show the fault. The others are said so here.

- `mitractl delete-profile` builds the Delete(Person), deletes the profile, enqueues the
  activity (`fedimovies-cli/src/cli.rs:252`). The executor loads the sender first, finds none
  and leaves the row Running; this repeats every hour and nothing is sent. (`QueueDrains` of
  `OutgoingQueue` without its second disjunct.)
- `delete_empty_profiles` and `delete_extraneous_posts` (`periodic_tasks.rs`) list, then delete
  one item after the other without a second look. A profile followed in the meantime goes
  with the follow, a thread that a user has answered goes with the answer. (`FoundAreExtraneous`
  is about the list when it is made; the same of `DeleteFound` does not hold.)
- `unfollow` deletes the relationship, then the request (`relationships/queries.rs:98`).
  Against an Accept that commits between the two, it deletes no relationship but the request.
  A later unfollow returns no request, which two callers `expect` to exist (a move received,
  `handlers/move.rs`, and followers moved by the API, `settings/helpers.rs`): they panic.
  (`RequestToUndo` of `FollowTransactions` without `orphan`. Of whole transactions,
  in `Relationships` and `Migration`, `RemoteFollowHasRequest` holds.)
- `update_profile` is a transaction of several statements (`profiles/queries.rs:176`). An emoji that another
  session updates while it is open can stay in its old version in the copy, since `update_emoji_caches`
  looks for profiles whose committed copy names the emoji. And if that statement has started before the COMMIT,
  it has computed its copies from the old rows and, when it gets the lock, writes them over the new ones.
  The profile is shown with the wrong emojis until its copy is next written. (`CacheAgrees` of `CustomEmojis` without what `StoreCopies` adds to `missed`.)
- A lookup or a refetch stores the document it has fetched whatever is stored by then
  (`fetcher/helpers.rs:44`, `actors/helpers.rs:172`). Fetched before an edit and stored after its
  Update(Person), it takes the copy back for up to a day; and so does an Update that is handled again after a newer one.
  (`CopyCurrent` of `ActorCopies` without the comparison of edits in `excused`.)
- The comment on `object_view` says "return 404 if not found, or not public, or it is a repost"
  (`activitypub/views.rs:296`). The code checks that the post is local and can be viewed by anybody, and
  serves the repost of a user as a Note. `ObjectView` of `Audience` is what the code does; no property asks for
  either, and no exception hides it.
- `import_post` keeps the object of a redirection for the next iteration
  (`fetcher/helpers.rs:230`). If that iteration skips its id (known already), the object is
  taken for the next URL of the work list, and that URL is recorded as redirected to it,
  which can replace the true entry for the parent of a reply. (The second
  disjunct of `ParentsTrue`; it takes four URLs, two of them redirected, two links and three fetches.)
- `import_post` stores in the reverse order of fetching, which is not the order of the reply
  tree when an object links to another reply of its own parent: the import never succeeds.
  (`Plain` of `ImportPost` excludes links.)
- `handle_movies_mentions` reads the 50 newest mentions and keeps those of posts that are not
  public: 50 of them, and every older public mention waits until one of these notes is deleted.
  (`MentionServed` without the count of private mentions in `MentionWaits`.)
- `PATCH update_credentials` rebuilds the profile without its aliases
  (`accounts/types.rs:342`), and `add_alias` writes back the whole row read at the start of the
  request (`settings/views.rs:99`): an edit in between is undone. The models have both; the
  copy follows the profile all the same.
- `update_remote_profile` falls back to the image of the row it was given, read before the
  fetches (`actors/helpers.rs:194`): a slow import that fails to fetch the image puts an old one
  back. (So `CopyConverges` says `[]<>` of the image only.)
- `can_view_post` does not know the author (`posts/helpers.rs:80`): a status that is not public
  is in the author's own lists and cannot be opened by the author, unless mentioned in it. (The
  exception `author = u` in `ListsAgreeWithStatus`.)
- Files: content that is saved again while an earlier row of the same content is deleted can
  lose its file (`raced`); an image replaced, the old attachments of an updated note, unused
  attachments of a deleted profile, and two deletions at the same time leave files that only
  `delete-orphaned-files` finds (`leaked`).

## 5. What is proved

For every value of the constants that satisfies the named assumptions:

| Module | Theorems |
|---|---|
| `Profiles_proofs` | `TypeCorrect`, `RemoteFollowHasRequestCorrect`, `RequestAgreesCorrect`, `CountersCorrect` |
| | `MigrationTypeCorrect`; `MigrationImplements`: `MigrationSpec => Spec`; `MigrationCounters`, `MigrationRequests` |
| | `EmojisTypeCorrect`, `CacheAgreesCorrect` (of `CustomEmojis`); `CopiesTypeCorrect`, `CopyCurrentCorrect` (of `ActorCopies`) |
| `IncomingQueue_proofs` | `AcceptedActsForActor`, `OwnAlwaysAccepted`, `QueuedOrigin` (of `Inbox`) |
| | `IncomingTypeCorrect`, `IncomingNothingLost`, `IncomingOriginRespected`; `IncomingDeliversAtLeastOnce`: the queue implements `AtLeastOnce` |
| | `ImportTypeCorrect`, `ImportParentsTrue`, `ImportThreadImported` (of `ImportPost`) |
| `OutgoingQueue_proofs` | `OutgoingTypeCorrect`, `OutgoingNobodyForgotten`, `OutgoingUnreachableEarned`, `OutgoingNoNeedlessRedelivery` |
| `FollowTransactions_proofs` | `FollowTypeCorrect`, `FollowCounterExact`, `FollowAcceptedHasRelationship`, `RequestToUndoCorrect` |
| | `MentionsTypeCorrect`, `MentionsNotifiedOnce`, `MentionsAnnouncedOnce` (of `Mentions`) |
| `Accounts_proofs` | `AccountsTypeCorrect`, `AccountsOnePerName`, `AccountsInvitesSpentOnce` |
| `Posts_proofs` | `PostsTypeCorrect`, `PostsCountersExact`, `PostsFoundAreExtraneous` |
| `Audience_proofs` | `AudienceTypeCorrect`, `AudienceListsAgree`, `AudienceThreadComplete`, `AudienceEmbeddedLoaded`, `AudienceDeliveryAgrees`, `AudienceRepliesDoNotWiden` |
| `MediaFiles_proofs` | `MediaFilesKept`, `MediaNothingLeaks` |

*Requests.* Neither `RemoteFollowHasRequest` nor `RequestAgrees` is inductive alone.
`AcceptRequest` makes a relationship, and keeps `RequestAgrees` since it sets the status in the
same step; `FollowRow` by a view makes one without touching the request, and is harmless only
since a pair of users never has a request (`NoLocalRequest`). `CreateProfile` resets counters
and a deletion removes rows of both tables, so that no row may refer to a missing profile
(`NoDanglingRow`). `RowsInv` is the conjunction with the type invariant. `StepCases` first
reduces the actions of `Next` to the few transactions they are made of.

*Counters.* A counter is the cardinality of a set of ends of a relation. `AddSource`,
`AddTarget`, `RemoveSource`, `RemoveTarget` and `WithoutProfile` say what adding or removing a
pair, or a profile, does to such cardinalities, for any relation; `NextCounters` applies them
to the three counters under each transaction. `RowsInv` supplies that rows to be added are
missing and that the counters of a new profile start from no rows.

*Moves.* `MovingSteps` shows that each step of a move is a step of `Relationships` (a user
unfollows, follows or requests) or changes no table. Everything proved of `Relationships` then
holds with moves: the counters, and the requests (`MigrationRequests`). All of it is about whole
transactions; what overlapping ones may do to a request is proved in `FollowTransactions_proofs`.

*Inbox.* `AuthenticatedSigned`: whatever `is_authenticated` says was said of a signature that
verified with the actor's key. The theorems then go through the refusals case by case. They
are about all requests, of any key owner and any set of known and blocked parties.

*Incoming queue.* `TInv` is the type invariant, strengthened: the job in hand is not in the
rest of the batch (`JobOffBatch`), and a failed handler that is about to requeue has budget
left (`RetryHasBudget`), without which `failures` could leave its range. `QInv` adds to
`NoActivityLost` and `OriginRespected` that rows are of accepted activities and that the row
about to be deleted is settled or has its retry in the table (`DeleteSafe`). That is the
inductive form of "enqueue the retry before deleting the row". The refinement needs each
step's effect on the two sets only (`KindsOfSteps`).

*Outgoing queue.* `KindsOfSteps` reduces the actions to eight kinds of steps. `NoRecipientForgotten`
needs to know that the flags and the failure count stored in a row are what has happened
(`RowsTrue`), the same of the flags in memory (`AttemptTrue`), and that a row about to be
deleted has a successor or nothing left to do (`DeleteSafe`); `UnreachableEarned` follows from
the second. `NoNeedlessRedelivery` is about numbers: the acknowledgements of a recipient and
the rows that may still lead to one (`Owed`) are together at most one more than the aborts
(`AckBudget`). A retry moves a debt from one row to another, an abort makes one.

*Follow transactions.* Whoever has written the relationship and not committed is in an accept or
an unfollow and is to commit the opposite of what is committed (`RelWriter`), so the counter
moves with the row; whoever has written the request has deleted or accepted it (`ReqWriter`). An
accept at its commit has written the relationship (`AcceptWhole`); an unfollow that has deleted
the relationship and not the request leaves none that is accepted (`UnfollowWhole`), since there
was none when it looked, and an accept could not commit one while the unfollow held the relationship.

`RequestToUndo` needs to know of the committed rows that a relationship has its request or is the orphan
(`RequestKept`), and of the open transactions that an accept holds the request it has accepted and an
unfollow at its commit one of the two rows (`HoldsRows`). An unfollow that holds no relationship while
there is one has been overtaken (`OvertakenKnown`); so it is recorded as such when it commits the deletion of the request.

*Accounts.* Whoever is past LOCK TABLE in `create_user` holds the lock, and nobody else does
(`LockHeld`). So what the statements have checked stays true until COMMIT: that no name matches
the pattern (`NameFree`) and that the code is not used (`CodeUnused`). Names that are equal but for
case match each other's pattern, which is why a check by LIKE keeps them distinct.

*Posts.* The counters are cardinalities again, and a deletion takes away whatever the context
contains. `ContextFacts` says what is needed of the recursive query: it is closed under
replies and reposts, and what is in it, but for the posts to delete, depends on another of its
posts. That the counters corrected by hand are then exact rests on a repost being no reply
(`RepostsPlain`): so no post that stays loses more rows than those deleted directly.
`FoundAreExtraneous` compares this context with a definition by roots,
`Root`, a recursive function. The library's induction theorems take an operator as parameter
and cannot be used, but the least-number principle can be had from its first-order theorem on
well-founded relations (`LeastNat`). Each induction on the depth of a post is a search for the
shallowest counterexample.

*Audience.* The reads are functions of the state, so most of the work is to show, list by list,
that SQL and Rust say the same of typed rows. The one thing that needs a history is that a
Delete is addressed like the Create: relationships change in between, so whoever was sent
a direct or subscribers-only post must be found in its mentions or its parent (`SentToNamed`). That
other servers can fetch what an outbox names rests on reposted posts being public, for good (`RepostsPublic`).

`ThreadComplete` holds of every typed state, by these steps. `Above` and `Root` solve their equations:
what is above a post is the least set closed under parents, which exists without recursion
(`AboveIs`), and one of it is no reply (`RootOnTop`). The recursive query finds the paths from the
root (`PathsAre`), one to each post (`PathTo`, `PathUnique`), by least counterexamples as
in `Posts_proofs`. `ORDER BY` on them is a strict total order (`PrecedesTotal`), which has an
enumeration since the number of smaller elements is a bijection (`Enumeration`), and a path precedes
its continuations. So the thread is the conversation in order (`ThreadIs`). In the model the
order is a CHOOSE (`Sorted`) and not `SetToSortSeq`, whose definition ends in an operator of TLC
that the provers do not know.

*Media files.* `KInv`, for `FilesKept`: what rows or requests refer to is on disk (`Present`), a file
is not both saved and queued for removal (`TwoHands`), what a request removes has no row
(`RemovedUnreferred`), and what an open deletion has found has none but the rows it deletes
(`DeletedUnreferred`), each but for `raced`. `SInv` adds what the row locks give: two
open deletions have no author and no post in common (`DeletedApart`), and the rows of each are
those of its posts and its profile (`DeletedRows`), so that commit or rollback of one does not
touch the rows of the other. Under it `Accounted` is inductive: each file on disk is in hands,
has a row that nobody is deleting, or was found (or counted as left) by the deletion of
its rows. An attempt without "ids are not used again while remembered" failed, and TLC found the
reason on an instance with two files: a deletion that had listed an attachment took
another row of the same id. ULIDs make that impossible, and the model now says so.

*Custom emojis.* The proof goes one emoji of one profile at a time (`AgreesPointwise`). `CacheAgrees` leaves out
the emojis between two statements. When the second statement has found its profiles, the emoji counts again for those
that it passes over since their copy does not name it: they must have no row of it (`RowsCached`). What it writes
later is right unless it has been overtaken (`CopiesMade`), and then `late` knows. A copy is well-typed only if the rows it is
made of name emojis that exist. `update_profile` owes that to the foreign key, which the model has as "a session
whose emoji was deleted fails", so an ID that a session holds and has not lost is of an
emoji that exists (`HeldExist`).

*Copies of actors.* A followed copy, unless excused, is the profile, or the profile is in flight or in
the memory of the request that has just written it (`OnItsWay`). That is inductive if no document
carries the newest edit and differs from the profile (`Latest`) and rows of actors stay (`CopyStays`).
A job is deleted only when its activity has been handled, and the copy has been written by then
(`HandledArrived`), so that the deletion does not take the profile off its way.
An attempt in which a follow excused only copies that say something else than the profile failed,
and TLC found the reason with two requests at home and three edits: a picture is changed and changed
back, the last of these edits is sent to nobody, a follow finds the old copy in agreement, and only
then the slower request sends the Update(Person) of the edit before. `Follow` now excuses every copy of an earlier edit.

*Import of posts.* The invariants are predicates of one call, the documents and the stored posts;
a step of another call only adds stored posts, which disturbs none of them. `ParentsTrue` needs to know
what a reply that is collected will refer to: its parent is the next id of the work list, or is
known under its own id, or is redirected to what it stands for (`ParentHandled`). It has to be said
beside the fault of section 4: an object that was kept and never used is known already, and from
then on only linked ids are left to be taken for it (`HeldNext`, `Frozen`). When fetching ends, nothing is left
to be next, which gives what storing relies on (`StoreInv`).

`ThreadImported` follows a call that nothing disturbs along the chain of ancestors of the requested
post (`ThreadInv`): it has collected the first m of them in order, the only id of its work list stands for
the m-th, and it has fetched at most one document more than that, so the limit is not reached. That
the chain has no object twice (`ChainDistinct`), and so has at most `DepthMax` objects before its end
(`ChainCount`), is an induction by least counterexample as in `Posts_proofs`. `Ancestors` is a recursive
function of one thread, whose domain is finite since `Url` is assumed to be: it stands for the URLs
that the documents of one import can name.

*Mentions.* A note has a new id, and what it makes has one notice for each recipient, so there is
one of a note for everybody (`NotifiedInv`). `AnnouncedInv` relates the open transaction to the rows that
others go on writing: what is left of the batch was not announced, and is still a row unless its post
is gone; what the transaction will delete is still a row, since its lock keeps the post; each of its
reposts comes with a mention that it will delete. At COMMIT any other mention of the same post to the
same user would be announced again. There is none, which is `NotifiedInv`. Foreign keys (`KeysInv`) hold since a post
is deleted with all replies below it (`BelowClosed`), for which the equation of the recursive query
is enough. `Where`, a recursive function, stands for SELECT and DELETE, because the provers do
not know what `SelectSeq` does; `WhereRows` says that it takes each row once and all of those to be kept.
Users are assumed to be finitely many: notices of one post to a set of them are put in some order.

*Model-checked only.* All of liveness (`QueueDrains`, `Answered`, `MentionServed`, `CopyConverges`),
which is out of the prover's reach, as is ENABLED, and so what fairness implies. Every invariant and
every action property that a run checks is stated by a theorem.

That `FollowTransactions` implements `Relationships` is not claimed, since it does not: an
unfollow that found no relationship and deletes the request after a concurrent accept has
committed leaves a relationship without a request, which no transaction of
`Relationships` does. The fault is described in section 4.

## 6. What is not modelled

- Content, formatting and documents (JSON, HTML, the text of NodeInfo and Webfinger), the
  cryptography itself, configuration and migrations: pure functions or plain input and output.
- The tables `subscription` and `invoice`: the payment monitor was removed from this fork, and no
  route writes them any more. (`mitractl reset-subscriptions` is in `Relationships`, for the
  relationships and the counter.) IPFS and permanent posts: one call of an external service each.
- The scheduler loop with its periods; a panic that ends it.
- Markers, directory, instance, NodeInfo: reads and one upsert. Tags and full-text search.
- `delete_post` against a concurrent reply, statement by statement, for the counters
  (`MediaFiles` has it for the files). Deadlocks between two users who follow each other.
- Content and edit times of posts: an older Update(Note) can overwrite a newer one, as
  Update(Person) does in `ActorCopies`.
- Notifications of follows and reactions, which no task reads.
- Documents that change during an import; `handle_emoji` for posts (read by a join, no copy).
- Larger instances that were tried and do not finish: `ActorCopies` with two requests at
  home at a time (safety holds in 850 thousand states, the liveness check takes too long),
  `MediaFiles` with two profiles.

## 7. Plan

1. `PostTransactions`: `delete_post` and `create_post` of a reply, statement by statement.
2. `Scheduler`: the loop with its periods, long tasks and panics, composed with the queues.
