-------------------------------- MODULE Mentions --------------------------------
(***************************************************************************)
(* Notifications of posts, and the periodic task handle_movies_mentions,   *)
(* which reposts every public post that mentions a user (a movie account)  *)
(* in the name of that user: create_post with its notifications, reblog,   *)
(* unreblog, delete_post, mutes, movie accounts created by the mention of  *)
(* a movie, and the task, whose transaction reads the newest mentions,     *)
(* reposts them one by one and commits at the end.                         *)
(*                                                                         *)
(* Writes of the open transaction are seen by nobody and lock the rows it  *)
(* has written: what needs these rows is taken after its end.  Left out:   *)
(* notifications of follows and reactions, which the task does not read.   *)
(***************************************************************************)
EXTENDS Integers, FiniteSets, Sequences, SequencesExt

CONSTANTS
    Profile,             \* rows actor_profile may have
    Local,               \* those of users of this server
    Writers,             \* those who write, repost and mute by hand
    Movies,              \* users that exist only once a note has mentioned them
    MaxPosts,            \* bound on the number of notes ever made
    MaxNotifications,    \* bound on the notifications at the time of a reblog
    Batch,               \* mentions read by one run of the task (50)
    MaxCrashes,          \* bound on the crashes during the task
    None                 \* SQL NULL

ASSUME MentionsAssumption ==
    /\ Movies \subseteq Local /\ Local \subseteq Profile /\ Writers \subseteq Profile
    /\ {MaxPosts, MaxNotifications, Batch, MaxCrashes} \subseteq Nat
    /\ None \notin Nat
    /\ IsFiniteSet(Local)

PostId == 1..MaxPosts

VARIABLES
    users,             \* user_account
    posts,             \* post without reposts, by id
    made,              \* number of ids used
    reposts,           \* post with repost_of_id: <<author_id, repost_of_id>> (UNIQUE)
    muted,             \* relationship of type Mute: <<source_id, target_id>>
    notifications,     \* notification, in the order of the ids
    task,              \* the open transaction of the task
    crashes,           \* number of crashes so far
    announced          \* history: how often the task has sent an Announce of a repost

rows == <<users, posts, made, reposts, muted, notifications>>
mentionsVars == <<rows, task, crashes, announced>>

Ids == DOMAIN posts

Idle ==
    [running |-> FALSE, batch |-> <<>>, private |-> {},    \* as read: mentions, posts
     reposts |-> {}, removed |-> {}, notices |-> <<>>]     \* as written

\* create_notification
Notice(type, sender, recipient, post) ==
    [type |-> type, sender |-> sender, recipient |-> recipient, post |-> post]

\* The rows of a table that are in kept, in their order: SELECT and DELETE.
Where(table, kept) ==
    LET upto[n \in 0..Len(table)] ==
            IF n = 0 THEN <<>>
            ELSE IF table[n] \in kept THEN Append(upto[n - 1], table[n])
            ELSE upto[n - 1]
    IN  upto[Len(table)]

ReplyNotice(a, u, p)   == Notice("reply", a, u, p)
MentionNotice(a, u, p) == Notice("mention", a, u, p)
RepostNotice(a, u, p)  == Notice("repost", a, u, p)

MentionsInit ==
    /\ users = Local \ Movies
    /\ posts = [p \in {} |-> None]
    /\ made = 0
    /\ reposts = {}
    /\ muted = {}
    /\ notifications = <<>>
    /\ task = Idle
    /\ crashes = 0
    /\ announced = [e \in Local \X PostId |-> 0]

-----------------------------------------------------------------------------
(* Rows locked by the task *)

LockedPost(p) == \E e \in task.reposts : e[2] = p
LockedUser(u) == \E e \in task.reposts : e[1] = u

-----------------------------------------------------------------------------
(* create_post *)

Muted(u, a) == <<u, a>> \in muted

\* (Mutant of ReplyNotices) The author of the parent is not noted as notified.
ReplyNoticesOnly(a, p, parent, mentions) ==
    LET to == {posts[q].author : q \in {parent} \ {None}} \cap (Local \ {a})
    IN  SetToSeq({ReplyNotice(a, u, p) : u \in to})
          \o SetToSeq({MentionNotice(a, u, p) :
                         u \in {m \in mentions \cap (Local \ {a}) : ~Muted(m, a)}})

\* A reply notifies the author of the parent, muted or not; those mentioned are
\* notified if they are not notified already and have not muted the author.
ReplyNotices(a, p, parent, mentions) ==
    LET to == {posts[q].author : q \in {parent} \ {None}} \cap (Local \ {a})
    IN  SetToSeq({ReplyNotice(a, u, p) : u \in to})
          \o SetToSeq({MentionNotice(a, u, p) :
                         u \in {m \in mentions \cap (Local \ ({a} \cup to)) : ~Muted(m, a)}})

\* A repost notifies the author of the post, by the id of that post.
RepostNotices(a, p) ==
    SetToSeq({RepostNotice(a, u, p) :
                u \in {m \in {posts[p].author} \cap (Local \ {a}) : ~Muted(m, a)}})

\* Whoever a note mentions has a profile by then; users have an account.
Resolved(mentions) == mentions \cap Local \subseteq users

\* create_status or handle_note.
CreateNote(a, parent, public, mentions) ==
    LET p == made + 1
    IN  /\ made < MaxPosts
        /\ a \in Local => a \in users
        /\ parent # None => ~LockedPost(parent)
        /\ ~LockedUser(a)
        /\ Resolved(mentions)
        /\ posts' = [q \in Ids \cup {p} |->
              IF q = p THEN [author |-> a, parent |-> parent, public |-> public]
                       ELSE posts[q]]
        /\ made' = p
        /\ notifications' = notifications \o ReplyNotices(a, p, parent, mentions)
        /\ UNCHANGED <<users, reposts, muted, task, crashes, announced>>

\* The mention of a movie that is not known: its account is created if TMDB
\* knows the movie, before and apart from the post.
LookupAndCreateMovieUser(u) ==
    /\ u \in Movies \ users
    /\ users' = users \cup {u}
    /\ UNCHANGED <<posts, made, reposts, muted, notifications, task, crashes, announced>>

\* reblog or handle_announce, of a public post, once.
Repost(a, p) ==
    /\ a \in Local => a \in users
    /\ posts[p].public
    /\ <<a, p>> \notin reposts
    /\ ~LockedUser(a) /\ ~LockedPost(p)
    /\ Len(notifications) < MaxNotifications
    /\ reposts' = reposts \cup {<<a, p>>}
    /\ notifications' = notifications \o RepostNotices(a, p)
    /\ UNCHANGED <<users, posts, made, muted, task, crashes, announced>>

\* unreblog or Undo(Announce): the notification of the repost stays.
UndoRepost(a, p) ==
    /\ <<a, p>> \in reposts
    /\ ~LockedUser(a) /\ ~LockedPost(p)
    /\ reposts' = reposts \ {<<a, p>>}
    /\ UNCHANGED <<users, posts, made, muted, notifications, task, crashes, announced>>

\* The replies to p, the replies to these ...
Below(p) ==
    LET up[q \in Ids] == {q} \cup IF posts[q].parent = None THEN {} ELSE up[posts[q].parent]
    IN  {q \in Ids : p \in up[q]}

\* delete_post: ON DELETE CASCADE takes replies, reposts and notifications along.
DeletePost(p) ==
    LET gone == Below(p)
    IN  /\ \A n \in task.removed : n.post \notin gone
        /\ \A q \in gone : ~LockedUser(posts[q].author)
        /\ posts' = [q \in Ids \ gone |-> posts[q]]
        /\ reposts' = {e \in reposts : e[2] \notin gone}
        /\ notifications' = Where(notifications, {n \in Range(notifications) : n.post \notin gone})
        /\ UNCHANGED <<users, made, muted, task, crashes, announced>>

Mute(u, a) ==
    /\ muted' = muted \cup {<<u, a>>}
    /\ UNCHANGED <<users, posts, made, reposts, notifications, task, crashes, announced>>

Unmute(u, a) ==
    /\ muted' = muted \ {<<u, a>>}
    /\ UNCHANGED <<users, posts, made, reposts, notifications, task, crashes, announced>>

\* get_notifications: what a user reads, the newest first.
Notifications(u) ==
    Reverse(Where(notifications, {n \in Range(notifications) : n.recipient = u}))

-----------------------------------------------------------------------------
(* handle_movies_mentions *)

IsMention(n) == n.type = "mention"

\* get_mention_notifications: the newest ones, of all users.
Newest ==
    LET mentions == Reverse(Where(notifications, {n \in Range(notifications) : IsMention(n)}))
    IN  SubSeq(mentions, 1, IF Len(mentions) < Batch THEN Len(mentions) ELSE Batch)

TaskReads ==
    /\ ~task.running
    /\ Newest # <<>>
    /\ task' = [Idle EXCEPT !.running = TRUE, !.batch = Newest,
                           !.private = {n.post : n \in {m \in Range(Newest) : ~posts[m.post].public}}]
    /\ UNCHANGED <<rows, crashes, announced>>

\* A post that was not public when it was read is passed over, deleted since or
\* not, and its notification stays.
TaskSkips ==
    /\ task.batch # <<>>
    /\ Head(task.batch).post \in task.private
    /\ task' = [task EXCEPT !.batch = Tail(@)]
    /\ UNCHANGED <<rows, crashes, announced>>

\* (Mutant of TaskReposts) The Announce is enqueued outside of the transaction.
TaskRepostsAndEnqueues ==
    LET n == Head(task.batch)
        e == <<n.recipient, n.post>>
    IN  /\ task.batch # <<>>
        /\ n.post \in Ids \ task.private
        /\ task' = [task EXCEPT !.batch = Tail(@),
              !.removed = @ \cup {n},
              !.reposts = @ \cup ({e} \ reposts),
              !.notices = @ \o IF e \in reposts THEN <<>> ELSE RepostNotices(n.recipient, n.post)]
        /\ announced' = [announced EXCEPT ![e] = IF e \in reposts THEN @ ELSE @ + 1]
        /\ UNCHANGED <<rows, crashes>>

\* (Mutant of TaskReposts) The notification of a note that the user has reposted
\* already stays.
TaskRepostsUnlessDone ==
    LET n == Head(task.batch)
        e == <<n.recipient, n.post>>
    IN  /\ task.batch # <<>>
        /\ n.post \in Ids \ task.private
        /\ task' = IF e \in reposts THEN [task EXCEPT !.batch = Tail(@)]
                   ELSE [task EXCEPT !.batch = Tail(@),
                           !.removed = @ \cup {n}, !.reposts = @ \cup {e},
                           !.notices = @ \o RepostNotices(n.recipient, n.post)]
        /\ UNCHANGED <<rows, crashes, announced>>

\* Otherwise it is reposted, unless the user has done so (AlreadyExists), and
\* the notification is deleted in either case.
TaskReposts ==
    LET n == Head(task.batch)
        e == <<n.recipient, n.post>>
    IN  /\ task.batch # <<>>
        /\ n.post \in Ids \ task.private
        /\ task' = [task EXCEPT !.batch = Tail(@),
              !.removed = @ \cup {n},
              !.reposts = @ \cup ({e} \ reposts),
              !.notices = @ \o IF e \in reposts THEN <<>> ELSE RepostNotices(n.recipient, n.post)]
        /\ UNCHANGED <<rows, crashes, announced>>

\* COMMIT: reposts, their notifications and their Announces, and the mentions
\* that have been dealt with.
TaskCommits ==
    /\ task.running /\ task.batch = <<>>
    /\ reposts' = reposts \cup task.reposts
    /\ notifications' = Where(notifications, Range(notifications) \ task.removed) \o task.notices
    /\ announced' = [e \in DOMAIN announced |->
          IF e \in task.reposts THEN announced[e] + 1 ELSE announced[e]]
    /\ task' = Idle
    /\ UNCHANGED <<users, posts, made, muted, crashes>>

\* A public post of the batch has been deleted since: the foreign key is violated,
\* and all of the batch is rolled back.
TaskAborts ==
    /\ task.batch # <<>>
    /\ Head(task.batch).post \notin Ids \cup task.private
    /\ task' = Idle
    /\ UNCHANGED <<rows, crashes, announced>>

\* A crash, or any other error, at any time.
TaskCrashes ==
    /\ task.running /\ crashes < MaxCrashes
    /\ task' = Idle
    /\ crashes' = crashes + 1
    /\ UNCHANGED <<rows, announced>>

-----------------------------------------------------------------------------
MentionsNext ==
    \/ \E a \in Writers :
        \/ \E parent \in Ids \cup {None}, public \in BOOLEAN, mentions \in SUBSET Local :
            CreateNote(a, parent, public, mentions)
        \/ \E p \in Ids : Repost(a, p)
    \/ \E a \in Profile, p \in Ids : UndoRepost(a, p)
    \/ \E u \in Movies : LookupAndCreateMovieUser(u)
    \/ \E p \in Ids : DeletePost(p)
    \/ \E u \in users \cap Writers : \E a \in Profile \ {u} : Mute(u, a) \/ Unmute(u, a)
    \/ TaskReads
    \/ TaskSkips
    \/ TaskReposts
    \/ TaskCommits
    \/ TaskAborts
    \/ TaskCrashes

MentionsSpec == MentionsInit /\ [][MentionsNext]_mentionsVars

\* The scheduler runs the task in every tick, and its steps follow one another.
MentionsFairness == WF_mentionsVars(TaskReads \/ TaskSkips \/ TaskReposts \/ TaskCommits \/ TaskAborts)

MentionsFairSpec == MentionsSpec /\ MentionsFairness

-----------------------------------------------------------------------------
(* Properties *)

MentionsTypeOK ==
    /\ users \subseteq Local
    /\ Ids \subseteq 1..made /\ made \in 0..MaxPosts
    /\ \A p \in Ids :
        /\ posts[p] \in [author : Profile, parent : Ids \cup {None}, public : BOOLEAN]
        /\ posts[p].author \in Local => posts[p].author \in users
    /\ reposts \subseteq Profile \X Ids
    /\ muted \subseteq Local \X Profile
    /\ \A n \in Range(notifications) :
        n \in [type : {"reply", "mention", "repost"}, sender : Profile,
               recipient : users, post : Ids]
    /\ crashes \in 0..MaxCrashes
    /\ task.reposts \subseteq users \X Ids
    /\ announced \in [Local \X PostId -> Nat]

\* A user reads of each note once, also of a reply to a post of theirs that
\* mentions them, and of nothing that they did themselves.
NotifiedOnce ==
    \A u \in Local :
        LET list == Notifications(u)
        IN  \A i, k \in DOMAIN list :
                /\ list[i].sender # u
                /\ {list[i].type, list[k].type} \subseteq {"reply", "mention"}
                   /\ list[i].post = list[k].post => i = k

\* Each mention is reposted and announced by the task once, whatever fails, is
\* undone or deleted in between, together with the repost.
AnnouncedOnce ==
    [][\A e \in DOMAIN announced :
          announced'[e] # announced[e] => announced[e] = 0 /\ announced'[e] = 1 /\ e \in reposts']_mentionsVars

\* u is mentioned by the public note p, and the mentions of notes that are not
\* public, which the task never removes, leave room for it among the newest ones.
MentionWaits(u, p) ==
    \E i \in DOMAIN notifications :
        /\ IsMention(notifications[i])
        /\ notifications[i].recipient = u /\ notifications[i].post = p
        /\ posts[p].public
        /\ Cardinality({k \in DOMAIN notifications :
              k > i /\ IsMention(notifications[k]) /\ ~posts[notifications[k].post].public}) < Batch

\* "Finds mention notifications and repost them": the task deals with each public
\* mention, in later runs if newer ones fill the batch, or somebody deletes the
\* post, or else a batch of newer mentions that are not public hides it: it
\* waits until some of these notes are deleted, and then it is served, too.
MentionServed == \A u \in Local, p \in PostId : MentionWaits(u, p) ~> ~MentionWaits(u, p)
=============================================================================
