--------------------------------- MODULE Posts ---------------------------------
(***************************************************************************)
(* Posts, replies, reposts, links and reactions of one server: the tables  *)
(* post, mention, post_link and post_reaction with their counters, the     *)
(* transactions create_post, delete_post, create_reaction,                 *)
(* delete_reaction and delete_profile, the views and inbox handlers that   *)
(* run them, and the periodic task that deletes threads in which no user   *)
(* of the server takes part.  A step is one transaction.                   *)
(*                                                                         *)
(* Left out: content, attachments, tags, emojis and notifications; of the  *)
(* visibilities only whether a post is public; mentions that do not name a *)
(* user and links in remote posts, which the periodic task does not read.  *)
(***************************************************************************)
EXTENDS Integers, FiniteSets

CONSTANTS
    Profile,         \* rows actor_profile may have
    Local,           \* those of users of this server
    PostId,          \* ids of posts: bounds the number of posts at a time
    None,            \* SQL NULL
    MaxReactions     \* bound on the number of reactions at a time

ASSUME PostsAssumption ==
    /\ IsFiniteSet(Profile) /\ IsFiniteSet(PostId)
    /\ Local \subseteq Profile
    /\ None \notin PostId
    /\ MaxReactions \in Nat

Remote == Profile \ Local

VARIABLES
    profiles,        \* actor_profile
    posts,           \* post, by id, with the users a post mentions and the posts it links to
    reactions,       \* post_reaction: <<author_id, post_id>>
    postCount,       \* actor_profile.post_count, 0 without a row
    found            \* what delete_extraneous_posts has found and not deleted yet

vars == <<profiles, posts, reactions, postCount, found>>

Post == [author : Profile, parent : PostId \cup {None}, original : PostId \cup {None},
         public : BOOLEAN, mentions : SUBSET Local, links : SUBSET PostId,
         replyCount : Int, repostCount : Int, reactionCount : Int]

Ids == DOMAIN posts

Init ==
    /\ profiles = {}
    /\ posts = [p \in {} |-> None]
    /\ reactions = {}
    /\ postCount = [a \in Profile |-> 0]
    /\ found = {}

-----------------------------------------------------------------------------
(* Operators on the table post *)

IsRepost(p) == posts[p].original # None

\* Posts that depend on p: its replies and its reposts.
Dependents(p) == {q \in Ids : p \in {posts[q].parent, posts[q].original}}

\* (Mutant of Context) WITH RECURSIVE that follows replies only.
ContextOfReplies(S) ==
    {p \in Ids : \A C \in SUBSET Ids :
        (S \subseteq C /\ \A q \in Ids : posts[q].parent \in C => q \in C) => p \in C}

\* WITH RECURSIVE context: the posts of S, their descendants and reposts.
Context(S) ==
    {p \in Ids : \A C \in SUBSET Ids :
        (S \subseteq C /\ \A q \in C : Dependents(q) \subseteq C) => p \in C}

\* The rows of posts that are left without those of gone (ON DELETE CASCADE,
\* of the links to them and of the mentions of users who are gone too).
Remaining(gone, people) ==
    [p \in Ids \ gone |->
        [posts[p] EXCEPT !.links = @ \ gone, !.mentions = @ \cap people]]

\* (Mutant of Counted) Each author once: without count(*).
CountedOnce(a, gone) == IF \E p \in gone : posts[p].author = a THEN 1 ELSE 0

\* Posts of an author among those deleted: GROUP BY post.author_id.
Counted(a, gone) == Cardinality({p \in gone : posts[p].author = a})

-----------------------------------------------------------------------------
(* Transactions *)

\* create_post_mentions and create_post_links insert nothing if a row is missing.
MentionsExist(mentions) == mentions \subseteq profiles

LinksExist(links) == links \subseteq Ids

\* The counters of a post, in a table of posts; no post is meant by None.
UpdateReplyCount(table, p, change) ==
    IF p = None THEN table ELSE [table EXCEPT ![p].replyCount = @ + change]

UpdateRepostCount(table, p, change) ==
    IF p = None THEN table ELSE [table EXCEPT ![p].repostCount = @ + change]

UpdateReactionCount(p, change) == [posts EXCEPT ![p].reactionCount = @ + change]

UpdatePostCount(a, change) == [postCount EXCEPT ![a] = @ + change]

\* create_post.  Replies to reposts, reposts of reposts and of posts that are
\* not public are refused, and so is a second repost (UNIQUE); foreign keys.
InsertPost(a, parent, original, public, mentions, links) ==
    \E new \in PostId \ (Ids \cup found) :
        /\ new = CHOOSE p \in PostId : p \notin Ids \cup found
        /\ a \in profiles
        /\ parent # None => parent \in Ids /\ ~IsRepost(parent)
        /\ original # None =>
            /\ original \in Ids /\ ~IsRepost(original) /\ posts[original].public
            /\ \A p \in Ids : posts[p].original = original => posts[p].author # a
        /\ MentionsExist(mentions) /\ LinksExist(links)
        /\ LET row == [author |-> a, parent |-> parent, original |-> original,
                       public |-> public, mentions |-> mentions, links |-> links,
                       replyCount |-> 0, repostCount |-> 0, reactionCount |-> 0]
               others == UpdateRepostCount(UpdateReplyCount(posts, parent, 1), original, 1)
           IN  posts' = [p \in Ids \cup {new} |-> IF p = new THEN row ELSE others[p]]
        /\ postCount' = UpdatePostCount(a, 1)
        /\ UNCHANGED <<profiles, reactions, found>>

\* delete_post: the post with its context, the counters of the authors, and
\* that of the post it replied to or reposted.
DeletePostRow(p) ==
    LET gone == Context({p})
        rest == Remaining(gone, profiles)
    IN  /\ p \in Ids
        /\ posts' = UpdateRepostCount(UpdateReplyCount(rest, posts[p].parent, -1),
                                      posts[p].original, -1)
        /\ reactions' = {r \in reactions : r[2] \notin gone}
        /\ postCount' = [a \in Profile |-> postCount[a] - Counted(a, gone)]
        /\ UNCHANGED profiles

\* create_reaction: not to reposts and not twice.
CreateReaction(a, p) ==
    /\ a \in profiles
    /\ p \in Ids /\ ~IsRepost(p)
    /\ <<a, p>> \notin reactions
    /\ Cardinality(reactions) < MaxReactions
    /\ reactions' = reactions \cup {<<a, p>>}
    /\ posts' = UpdateReactionCount(p, 1)
    /\ UNCHANGED <<profiles, postCount, found>>

DeleteReaction(a, p) ==
    /\ <<a, p>> \in reactions
    /\ reactions' = reactions \ {<<a, p>>}
    /\ posts' = UpdateReactionCount(p, -1)
    /\ UNCHANGED <<profiles, postCount, found>>

\* create_user, or the import of a remote actor.
CreateProfile(a) ==
    /\ a \notin profiles
    /\ profiles' = profiles \cup {a}
    /\ postCount' = [postCount EXCEPT ![a] = 0]
    /\ UNCHANGED <<posts, reactions, found>>

\* delete_profile: the posts of the profile with their context, and the
\* counters of what it replied to, reposted and reacted to.
DeleteProfile(a) ==
    LET gone == Context({p \in Ids : posts[p].author = a})
        rest == Remaining(gone, profiles \ {a})
        Own(kind, q) == Cardinality({p \in Ids : posts[p].author = a /\ posts[p][kind] = q})
    IN  /\ a \in profiles
        /\ profiles' = profiles \ {a}
        /\ posts' = [q \in Ids \ gone |->
              [rest[q] EXCEPT !.replyCount = @ - Own("parent", q),
                              !.repostCount = @ - Own("original", q),
                              !.reactionCount = IF <<a, q>> \in reactions THEN @ - 1 ELSE @]]
        /\ reactions' = {r \in reactions : r[1] # a /\ r[2] \notin gone}
        /\ postCount' = [b \in Profile |->
              IF b = a THEN 0 ELSE postCount[b] - Counted(b, gone)]
        /\ UNCHANGED found

-----------------------------------------------------------------------------
(* Views of users and handlers of activities of remote actors *)

\* create_status: what a user replies to a post that is not public is not
\* public either; only public posts link, to public posts.
CreateStatus(a, parent, public, links) ==
    /\ a \in Local
    /\ parent # None => parent \in Ids /\ (posts[parent].public \/ ~public)
    /\ links # {} => public
    /\ \A p \in links : p \in Ids /\ posts[p].public /\ ~IsRepost(p)
    /\ InsertPost(a, parent, None, public, {}, links)

\* handle_note, for a Create that is queued or a note that is fetched.
HandleNote(a, parent, public, mentions) ==
    /\ a \in Remote
    /\ InsertPost(a, parent, None, public, mentions, {})

\* handle_update_note: update_post replaces the mentions of the post.
HandleUpdateNote(p, mentions) ==
    /\ posts[p].author \in Remote /\ ~IsRepost(p)
    /\ MentionsExist(mentions)
    /\ posts' = [posts EXCEPT ![p].mentions = mentions]
    /\ UNCHANGED <<profiles, reactions, postCount, found>>

\* reblog, or handle_movies_mentions: a repost is public.
Reblog(a, original) == a \in Local /\ InsertPost(a, None, original, TRUE, {}, {})

HandleAnnounce(a, original) == a \in Remote /\ InsertPost(a, None, original, TRUE, {}, {})

Favourite(a, p) == a \in Local /\ CreateReaction(a, p)

HandleLike(a, p) == a \in Remote /\ CreateReaction(a, p)

Unfavourite(a, p) == a \in Local /\ DeleteReaction(a, p)

\* handle_undo, if it finds a reaction with the id of the activity ...
UndoLike(a, p) == a \in Remote /\ DeleteReaction(a, p)

DeletePost(p) == DeletePostRow(p) /\ UNCHANGED found

\* ... and if it finds a repost instead.
UndoAnnounce(p) == posts[p].author \in Remote /\ IsRepost(p) /\ DeletePost(p)

\* delete_status, by the author.
DeleteStatus(p) == posts[p].author \in Local /\ DeletePost(p)

\* unreblog finds the repost by what was reposted.
Unreblog(a, original) ==
    /\ a \in Local
    /\ \E p \in Ids : posts[p].author = a /\ posts[p].original = original /\ DeletePost(p)

\* handle_delete, of a post of the actor ...
HandleDelete(p) == posts[p].author \in Remote /\ DeletePost(p)

\* ... and of the actor.
HandleSelfDelete(a) == a \in Remote /\ DeleteProfile(a)

\* mitractl delete-profile of a user; delete-post is DeleteStatus and HandleDelete.
CliDeleteProfile(a) == a \in Local /\ DeleteProfile(a)

-----------------------------------------------------------------------------
(* delete_extraneous_posts *)

\* (Mutant of IsExtraneous) Only the posts of the thread are looked at.
IsExtraneousByAuthors(root) ==
    /\ root \in Ids
    /\ posts[root].parent = None /\ ~IsRepost(root)
    /\ \A p \in Context({root}) : posts[p].author \notin Local

\* find_extraneous_posts: threads without local posts, reposts, mentions,
\* reactions and links.
IsExtraneous(root) ==
    LET context == Context({root})
    IN  /\ root \in Ids
        /\ posts[root].parent = None /\ ~IsRepost(root)
        /\ \A p \in context : posts[p].author \notin Local /\ posts[p].mentions = {}
        /\ \A r \in reactions : r[2] \in context => r[1] \notin Local
        /\ \A p \in Ids : posts[p].links # {} =>
            posts[p].author \notin Local \/ posts[p].links \cap context = {}

\* First the list (some of the threads were updated too recently) ...
FindExtraneous ==
    /\ found = {}
    /\ \E list \in SUBSET {p \in Ids : IsExtraneous(p)} :
        /\ list # {}
        /\ found' = list
    /\ UNCHANGED <<profiles, posts, reactions, postCount>>

\* ... then one thread after the other, in transactions of their own.
DeleteFound(p) ==
    /\ p \in found
    /\ DeletePostRow(p)
    /\ found' = found \ {p}

\* A post of the list that is gone, a database error or a crash: the rest of
\* the list is dropped.
FoundAborts ==
    /\ found # {}
    /\ found' = {}
    /\ UNCHANGED <<profiles, posts, reactions, postCount>>

-----------------------------------------------------------------------------
Next ==
    \/ \E a \in Profile :
        \/ CreateProfile(a)
        \/ HandleSelfDelete(a)
        \/ CliDeleteProfile(a)
        \/ \E parent \in Ids \cup {None}, public \in BOOLEAN :
            \/ \E links \in SUBSET Ids : CreateStatus(a, parent, public, links)
            \/ \E mentions \in SUBSET Local : HandleNote(a, parent, public, mentions)
        \/ \E p \in Ids :
            \/ Reblog(a, p) \/ Unreblog(a, p) \/ HandleAnnounce(a, p)
            \/ Favourite(a, p) \/ Unfavourite(a, p)
            \/ HandleLike(a, p) \/ UndoLike(a, p)
    \/ \E p \in Ids :
        \/ DeleteStatus(p)
        \/ HandleDelete(p)
        \/ UndoAnnounce(p)
        \/ DeleteFound(p)
        \/ \E mentions \in SUBSET Local : HandleUpdateNote(p, mentions)
    \/ FindExtraneous
    \/ FoundAborts

Spec == Init /\ [][Next]_vars

-----------------------------------------------------------------------------
(* Properties *)

\* Every row refers to rows that exist, so that no transaction fails halfway
\* on a foreign key: the context delete_post computes is all that refers to
\* what it deletes.
TypeOK ==
    /\ profiles \subseteq Profile
    /\ Ids \subseteq PostId
    /\ \A p \in Ids :
        /\ posts[p] \in Post
        /\ posts[p].author \in profiles
        /\ {posts[p].parent, posts[p].original} \subseteq Ids \cup {None}
        /\ posts[p].mentions \subseteq profiles
        /\ posts[p].links \subseteq Ids
    /\ reactions \subseteq profiles \X Ids
    /\ postCount \in [Profile -> Int]
    /\ found \subseteq PostId

\* The four counters are the numbers of rows they summarise, after any
\* sequence of posts, replies, reposts and reactions and the deletion of any
\* post or profile with whatever depends on it (so they never violate
\* CHECK (... >= 0)).
PostCountersExact ==
    /\ \A a \in Profile : postCount[a] = Cardinality({p \in Ids : posts[p].author = a})
    /\ \A p \in Ids :
        /\ posts[p].replyCount = Cardinality({q \in Ids : posts[q].parent = p})
        /\ posts[p].repostCount = Cardinality({q \in Ids : posts[q].original = p})
        /\ posts[p].reactionCount = Cardinality({r \in reactions : r[2] = p})

\* The thread of p, from below: Root[n][p] is n steps up from p, at most.
Root[n \in 0..Cardinality(PostId)] ==
    [p \in Ids |->
        LET up == IF IsRepost(p) THEN posts[p].original ELSE posts[p].parent
        IN  IF n = 0 \/ up = None THEN p ELSE Root[n - 1][up]]

Thread(p) == {q \in Ids : Root[Cardinality(PostId)][q] = Root[Cardinality(PostId)][p]}

\* A user of this server wrote, reposted, liked, is mentioned in or links to p.
TouchedLocally(p) ==
    \/ posts[p].author \in Local
    \/ posts[p].mentions # {}
    \/ \E a \in Local : <<a, p>> \in reactions
    \/ \E q \in Ids : posts[q].author \in Local /\ p \in posts[q].links

\* "do not contain local posts, reposts, mentions, links or reactions": when
\* the list is made, no user has to do with any post of a listed thread.
FoundAreExtraneous ==
    [][\A p \in found' \ found : \A q \in Thread(p) : ~TouchedLocally(q)]_vars
=============================================================================
