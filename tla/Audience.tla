-------------------------------- MODULE Audience --------------------------------
(***************************************************************************)
(* Who may read a post, where it is listed, and which servers it is sent   *)
(* to: the visibility of posts against the rows of relationship (follows,  *)
(* subscriptions, mutes, hidden reposts and replies), with the views that  *)
(* write them (create_status, reblog, follow, unfollow, mute, unmute) and  *)
(* the handlers of the activities of remote actors.  The reads (status,    *)
(* thread, timelines, author page) and the recipients of Create, Announce  *)
(* and Delete are operators on that state.                                 *)
(*                                                                         *)
(* Left out: counters and deletions (Posts), follow requests               *)
(* (Relationships), notifications (Mentions), content, and paging: a list  *)
(* is the set of what all its pages show.                                  *)
(***************************************************************************)
EXTENDS Integers, FiniteSets, Sequences, SequencesExt

CONSTANTS
    Profile,       \* rows of actor_profile
    Local,         \* those of users of this server
    None,          \* SQL NULL: no parent, no viewer
    MaxRows,       \* bound on the number of posts and relationship rows together
    MaxTags        \* bound on the number of mentions and links of a post

ASSUME AudienceAssumption ==
    /\ Local \subseteq Profile
    /\ None \notin Profile \cup Nat
    /\ MaxRows \in Nat /\ MaxTags \in Nat

Remote == Profile \ Local

Visibility == {"public", "direct", "followers", "subscribers"}

RelationshipType == {"follow", "subscription", "hide_reposts", "hide_replies", "mute"}

VARIABLES
    rel,      \* relationship: <<type, source, target>>
    posts     \* post, in the order of the ids (ULIDs grow with time)

vars == <<rel, posts>>

Ids == DOMAIN posts

Post == [author : Profile, visibility : Visibility, parent : Nat \cup {None},
         original : Nat \cup {None}, mentions : SUBSET Profile, links : SUBSET Nat,
         sentTo : SUBSET Remote]       \* sentTo: history, who was sent the Create

Init ==
    /\ rel = {}
    /\ posts = <<>>

Room == Len(posts) + Cardinality(rel) < MaxRows

Row(type, s, t) == <<type, s, t>> \in rel

Followers(t)   == {s \in Profile : Row("follow", s, t)}
Subscribers(t) == {s \in Profile : Row("subscription", s, t)}

IsRepost(p) == posts[p].original # None

-----------------------------------------------------------------------------
(* Who may read a post *)

\* (Mutant of CanView) Mentioned users are forgotten where followers may read.
CanViewUnlessMentioned(p, u) ==
    \/ posts[p].visibility = "public"
    \/ posts[p].visibility \in {"direct", "subscribers"} /\ u \in posts[p].mentions
    \/ posts[p].visibility = "followers" /\ Row("follow", u, posts[p].author)

\* can_view_post, of the view of one status; u is None without a login.
CanView(p, u) ==
    \/ posts[p].visibility = "public"
    \/ u \in posts[p].mentions
    \/ posts[p].visibility = "followers" /\ Row("follow", u, posts[p].author)

\* build_visibility_filter, of every list.
Visible(p, u) ==
    \/ posts[p].author = u
    \/ posts[p].visibility = "public"
    \/ u \in posts[p].mentions
    \/ posts[p].visibility = "followers" /\ Row("follow", u, posts[p].author)

-----------------------------------------------------------------------------
(* Lists *)

By(p, u) == p # None /\ posts[p].author = u

\* An account that u follows or has subscribed to, less what u has hidden.
Followed(p, u) ==
    LET a == posts[p].author
    IN  /\ Row("follow", u, a) \/ Row("subscription", u, a)
        /\ IsRepost(p) => ~Row("hide_reposts", u, a) \/ By(posts[p].original, u)
        /\ posts[p].parent # None => ~Row("hide_replies", u, a) \/ By(posts[p].parent, u)

HomeTimeline(u) ==
    {p \in Ids :
        /\ posts[p].author = u \/ Followed(p, u) \/ u \in posts[p].mentions
        /\ ~Row("mute", u, posts[p].author)
        /\ Visible(p, u)}

LocalTimeline == {p \in Ids : posts[p].author \in Local /\ posts[p].visibility = "public"}

PostsByAuthor(a, u, replies, reposts) ==
    {p \in Ids :
        /\ posts[p].author = a
        /\ Visible(p, u)
        /\ ~replies => posts[p].parent = None
        /\ ~reposts => ~IsRepost(p)}

\* get_posts_by_tag, where tagged is the set of posts with the tag.
PostsByTag(tagged, u) == {p \in tagged : Visible(p, u)}

-----------------------------------------------------------------------------
(* Views; u is None without a login *)

\* get_status
GetStatus(u) == {p \in Ids : CanView(p, u)}

\* search, with the URL of a post that is here by then.
SearchByUrl(p, u) == {q \in {p} : CanView(q, u)}

\* object_view, the document of a post for other servers.  Its comment says that
\* a repost is not found, which the code does not check (see the README).
ObjectView == {p \in Ids : posts[p].author \in Local /\ CanView(p, None)}

\* home_timeline, public_timeline and hashtag_timeline, the last one for anybody.
Timelines(u, tagged) ==
    PostsByTag(tagged, u) \cup IF u = None THEN {} ELSE HomeTimeline(u) \cup LocalTimeline

\* get_account_statuses
AccountStatuses(a, u, excludeReplies) == PostsByAuthor(a, u, ~excludeReplies, TRUE)

\* outbox, the Creates of posts and the Announces of reposts, and get_atom_feed.
Outbox(a)   == PostsByAuthor(a, None, TRUE, TRUE)
AtomFeed(a) == PostsByAuthor(a, None, FALSE, FALSE)

\* build_create_note and build_announce: the objects of a's activities there.
OutboxObjects(a) ==
    {IF IsRepost(p) THEN posts[p].original ELSE p : p \in Outbox(a)}

-----------------------------------------------------------------------------
(* Threads: the two recursive queries of get_thread, and get_context *)

\* (Mutant of Ancestors) The filter also ends the way up.
AncestorsVisible(p, u) ==
    LET up[q \in Ids] ==
            IF ~Visible(q, u) THEN {}
            ELSE {q} \cup IF posts[q].parent = None THEN {} ELSE up[posts[q].parent]
    IN  IF IsRepost(p) THEN {} ELSE up[p]

\* ancestors: only the post itself must be visible.
Ancestors(p, u) ==
    LET up[q \in Ids] == {q} \cup IF posts[q].parent = None THEN {} ELSE up[posts[q].parent]
    IN  IF IsRepost(p) \/ ~Visible(p, u) THEN {} ELSE up[p]

\* thread: the paths from the roots among the ancestors to all that is below.
Paths(roots) ==
    LET level[n \in 1..Len(posts)] ==
            IF n = 1 THEN {<<r>> : r \in roots}
            ELSE UNION {{Append(path, q) : q \in {c \in Ids : posts[c].parent = Last(path)}} :
                          path \in level[n - 1]}
    IN  UNION {level[n] : n \in 1..Len(posts)}

\* The order of arrays in PostgreSQL.
Precedes(s, t) ==
    \E i \in 1..Len(t) :
        /\ \A k \in 1..(i - 1) : k <= Len(s) /\ s[k] = t[k]
        /\ i = Len(s) + 1 \/ (i <= Len(s) /\ s[i] < t[i])

\* ORDER BY path.
Sorted(S) ==
    CHOOSE f \in [1..Cardinality(S) -> S] :
        \A i, k \in DOMAIN f : i < k => Precedes(f[i], f[k])

\* get_thread; empty is NotFound.
Thread(p, u) ==
    LET roots == {q \in Ancestors(p, u) : posts[q].parent = None}
        paths == Sorted({s \in Paths(roots) : Visible(Last(s), u)})
    IN  [i \in DOMAIN paths |-> Last(paths[i])]

\* get_context: what comes before the status in the thread, and what after.
Context(p, u) ==
    LET thread == Thread(p, u)
        i      == CHOOSE k \in DOMAIN thread : thread[k] = p
    IN  [ancestors   |-> {thread[k] : k \in 1..(i - 1)},
         descendants |-> {thread[k] : k \in (i + 1)..Len(thread)}]

-----------------------------------------------------------------------------
(* Statuses built for a list: each post with its parent, repost and links   *)

\* (Mutant of Related) Without the links of reposted posts.
RelatedUnlinked(S) ==
    UNION {({posts[p].parent, posts[p].original} \ {None}) \cup posts[p].links : p \in S}

\* get_related_posts
Related(S) ==
    UNION {({posts[p].parent, posts[p].original} \ {None}) \cup posts[p].links
             \cup (IF IsRepost(p) THEN posts[posts[p].original].links ELSE {}) : p \in S}

\* What add_related_posts looks up among them for p, failing if it is not there.
Embedded(p) ==
    (IF posts[p].parent = None THEN {} ELSE {posts[p].parent})
      \cup (IF IsRepost(p) THEN {posts[p].original} \cup posts[posts[p].original].links ELSE {})
      \cup posts[p].links

-----------------------------------------------------------------------------
(* Recipients of the activities of users *)

\* build_note: to and cc, with the collections expanded.
Addressed(p) ==
    (CASE posts[p].visibility \in {"public", "followers"} -> Followers(posts[p].author)
       [] posts[p].visibility = "subscribers" -> Subscribers(posts[p].author)
       [] OTHER -> {})
      \cup posts[p].mentions
      \cup {posts[q].author : q \in {posts[p].parent} \ {None}}

\* get_note_recipients: the remote actors whose inboxes get the Create, and
\* later the Delete, of a post with this author, visibility, ...
Recipients(author, visibility, parent, mentions) ==
    LET audience ==
            CASE visibility \in {"public", "followers"} -> Followers(author)
              [] visibility = "subscribers" -> Subscribers(author)
              [] OTHER -> {}
        parentAuthor == {posts[q].author : q \in {parent} \ {None}}
    IN  (audience \cup parentAuthor \cup mentions) \cap Remote

\* prepare_delete_note
DeleteNoteRecipients(p) ==
    Recipients(posts[p].author, posts[p].visibility, posts[p].parent, posts[p].mentions)

\* get_announce_recipients
AnnounceRecipients(author, original) == (Followers(author) \cup {posts[original].author}) \cap Remote

-----------------------------------------------------------------------------
(* Posts are written *)

InsertPost(a, visibility, parent, original, mentions, links, sentTo) ==
    /\ Room
    /\ posts' = Append(posts,
         [author |-> a, visibility |-> visibility, parent |-> parent, original |-> original,
          mentions |-> mentions, links |-> links, sentTo |-> sentTo])
    /\ UNCHANGED rel

\* (Mutant of MayReply) Any reply that is not public fits a post that is not.
MayReplyHidden(p, visibility, mentions) ==
    /\ ~IsRepost(p)
    /\ posts[p].visibility # "public" => visibility # "public"
    /\ visibility # "public" => mentions \subseteq posts[p].mentions \cup {posts[p].author}

\* The reply validation of create_status.
MayReply(p, visibility, mentions) ==
    /\ ~IsRepost(p)
    /\ posts[p].visibility # "public" => visibility = "direct"
    /\ visibility # "public" => mentions \subseteq posts[p].mentions \cup {posts[p].author}

\* (Mutant of AllMentions) Subscribers are addressed by their collection only.
AllMentionsNamed(a, visibility, named) == named

\* A post for subscribers mentions each of them.
AllMentions(a, visibility, named) ==
    named \cup IF visibility = "subscribers" THEN Subscribers(a) ELSE {}

\* create_status.  One step, although it reads the subscribers, the parent and
\* the recipients in statements of their own: what can change in between are the
\* followers (whoever follows while the post is written gets it or not), since
\* nothing makes subscribers of local accounts any more.
CreateStatus(a, visibility, parent, named, links) ==
    LET mentions == AllMentions(a, visibility, named)
    IN  /\ a \in Local
        /\ links # {} => visibility = "public"
        /\ \A q \in links : posts[q].visibility = "public" /\ ~IsRepost(q)
        /\ parent # None => MayReply(parent, visibility, mentions)
        /\ InsertPost(a, visibility, parent, None, mentions, links,
                      Recipients(a, visibility, parent, mentions))

\* reblog, or the repost of a mention by the periodic task.
Reblog(a, original) ==
    /\ a \in Local
    /\ posts[original].visibility = "public" /\ ~IsRepost(original)
    /\ \A q \in Ids : posts[q].original = original => posts[q].author # a
    /\ InsertPost(a, "public", None, original, {}, {}, AnnounceRecipients(a, original))

\* get_object_visibility: the audience of a note decides, the widest first.
ObjectVisibility(audience) ==
    CASE "public" \in audience      -> "public"
      [] "followers" \in audience /\ "public" \notin audience -> "followers"
      [] "subscribers" \in audience /\ audience \cap {"public", "followers"} = {} -> "subscribers"
      [] OTHER -> "direct"

\* handle_note: create_post refuses replies to reposts.
HandleNote(a, audience, parent, mentions, links) ==
    /\ a \in Remote
    /\ parent # None => ~IsRepost(parent)
    /\ InsertPost(a, ObjectVisibility(audience), parent, None, mentions, links, {})

\* handle_update_note: the visibility stays.
HandleUpdateNote(p, mentions, links) ==
    /\ posts[p].author \in Remote /\ ~IsRepost(p)
    /\ p \notin links
    /\ posts' = [posts EXCEPT ![p].mentions = mentions, ![p].links = links]
    /\ UNCHANGED rel

HandleAnnounce(a, original) ==
    /\ a \in Remote
    /\ posts[original].visibility = "public" /\ ~IsRepost(original)
    /\ \A q \in Ids : posts[q].original = original => posts[q].author # a
    /\ InsertPost(a, "public", None, original, {}, {}, {})

-----------------------------------------------------------------------------
(* Relationships *)

\* hide_reposts, hide_replies, mute_posts and their opposites.
SetHidden(rows, type, s, t, hidden) ==
    IF hidden THEN rows \cup {<<type, s, t>>} ELSE rows \ {<<type, s, t>>}

\* follow_account sets what is shown with every call, and follows local
\* accounts at once (remote ones with the Accept).
FollowAccount(s, t, reblogs, replies) ==
    LET follow == {<<"follow", s, t>> : x \in {t} \cap Local}
    IN  /\ s \in Local
        /\ rel' = SetHidden(SetHidden(rel \cup follow, "hide_reposts", s, t, ~reblogs),
                           "hide_replies", s, t, ~replies)
        /\ Len(posts) + Cardinality(rel') <= MaxRows
        /\ UNCHANGED posts

\* unfollow, by either party's server, takes along what is hidden of the other
\* (show_reposts, show_replies); a subscription and a mute stay.
UnfollowAccount(s, t) ==
    /\ Row("follow", s, t)
    /\ rel' = rel \ {<<"follow", s, t>>, <<"hide_reposts", s, t>>, <<"hide_replies", s, t>>}
    /\ UNCHANGED posts

MuteAccount(s, t) ==
    /\ Room
    /\ s \in Local
    /\ rel' = SetHidden(rel, "mute", s, t, TRUE)
    /\ UNCHANGED posts

UnmuteAccount(s, t) ==
    /\ s \in Local
    /\ rel' = SetHidden(rel, "mute", s, t, FALSE)
    /\ UNCHANGED posts

\* Accept of a request to a remote actor, or a Follow of one.
RemoteFollow(s, t) ==
    /\ Room
    /\ {s, t} \cap Remote # {}
    /\ rel' = rel \cup {<<"follow", s, t>>}
    /\ UNCHANGED posts

\* A row of relationship of type Subscription: an Add of a remote actor, or one
\* that a local account was given when it could still be paid (no view or handler
\* of the present code makes those, but the lists go on reading them).
Subscribe(s, t) ==
    /\ Room
    /\ rel' = rel \cup {<<"subscription", s, t>>}
    /\ UNCHANGED posts

Unsubscribe(s, t) ==
    /\ Row("subscription", s, t)
    /\ rel' = rel \ {<<"subscription", s, t>>}
    /\ UNCHANGED posts

-----------------------------------------------------------------------------
\* Mentions of others and links, few of them.
Tags(a) ==
    {tags \in (SUBSET (Profile \ {a})) \X (SUBSET Ids) :
        Cardinality(tags[1]) + Cardinality(tags[2]) <= MaxTags}

Audiences ==
    {{}, {"public"}, {"followers"}, {"subscribers"}, {"public", "followers"}}

Write ==
    \/ \E a \in Local :
        \/ \E parent \in Ids \cup {None}, tags \in Tags(a), visibility \in Visibility :
            CreateStatus(a, visibility, parent, tags[1], tags[2])
        \/ \E p \in Ids : Reblog(a, p)
    \/ \E a \in Remote :
        \/ \E parent \in Ids \cup {None}, tags \in Tags(a), audience \in Audiences :
            HandleNote(a, audience, parent, tags[1], tags[2])
        \/ \E p \in Ids : HandleAnnounce(a, p)

Update ==
    \E p \in Ids : \E tags \in Tags(posts[p].author) : HandleUpdateNote(p, tags[1], tags[2])

Relate ==
    \E s \in Profile : \E t \in Profile \ {s} :
        \/ \E reblogs, replies \in BOOLEAN : FollowAccount(s, t, reblogs, replies)
        \/ UnfollowAccount(s, t)
        \/ MuteAccount(s, t)
        \/ UnmuteAccount(s, t)
        \/ RemoteFollow(s, t)
        \/ Subscribe(s, t)
        \/ Unsubscribe(s, t)

Next == Write \/ Update \/ Relate

Spec == Init /\ [][Next]_vars

-----------------------------------------------------------------------------
(* Properties *)

\* Every post passes the consistency checks that Post::new makes when it is read,
\* and replies are to older posts that are not reposts.
TypeOK ==
    /\ rel \subseteq RelationshipType \X Profile \X Profile
    /\ posts \in Seq(Post)
    /\ \A p \in Ids :
        /\ ({posts[p].parent, posts[p].original} \ {None}) \cup posts[p].links \subseteq Ids
        /\ posts[p].original # None =>
            posts[p].parent = None /\ posts[p].mentions = {} /\ posts[p].links = {}
        /\ posts[p].parent # None => posts[p].parent < p /\ ~IsRepost(posts[p].parent)

\* The filter of the lists and the check of single posts are two
\* implementations of one rule: whatever a list shows to somebody can be
\* opened and is found by its URL, the page of an author lists all of it that
\* can be opened (can_view_post alone forgets the author; see the README), other
\* servers can fetch every post of this server that an outbox names as an object
\* or a feed shows, and what they can fetch is in the outbox of its author.  (That
\* reposts can be fetched, too, is not asked: object_view says the opposite.)
ListsAgreeWithStatus ==
    /\ \A u \in Local \cup {None} :
        LET readable == GetStatus(u)
        IN  /\ \A p \in Timelines(u, Ids) \ readable : posts[p].author = u
            /\ \A a \in Profile \ {u} : AccountStatuses(a, u, FALSE) =
                    {p \in readable : posts[p].author = a}
            /\ \A p \in readable : p \in SearchByUrl(p, u)
    /\ \A a \in Local : \A p \in OutboxObjects(a) \cup AtomFeed(a) :
        posts[p].author \in Local => p \in ObjectView
    /\ \A p \in ObjectView : ~IsRepost(p) => p \in OutboxObjects(posts[p].author)

\* Who is in the conversation of p, without get_thread.
Root[p \in Ids] == IF posts[p].parent = None THEN p ELSE Root[posts[p].parent]
Above[p \in Ids] ==
    IF posts[p].parent = None THEN {} ELSE {posts[p].parent} \cup Above[posts[p].parent]

\* From any post of a conversation one sees all of it that one may read, also
\* across posts that one may not read, once each and parents first; what is
\* above the post is among its ancestors and what is below it is not.
ThreadComplete ==
    \A u \in Local \cup {None}, p \in Ids :
        Visible(p, u) /\ ~IsRepost(p) =>
            LET thread == Thread(p, u)
                seen   == {q \in Ids : Visible(q, u) /\ ~IsRepost(q) /\ Root[q] = Root[p]}
            IN  /\ Range(thread) = seen
                /\ Len(thread) = Cardinality(seen)
                /\ \A i, k \in DOMAIN thread : thread[i] \in Above[thread[k]] => i < k
                /\ \A q \in seen :
                    /\ q \in Above[p] => q \in Context(p, u).ancestors
                    /\ p \in Above[q] => q \in Context(p, u).descendants

\* No list fails because a post that is embedded in one of its statuses is
\* not among those that get_related_posts has loaded.
EmbeddedLoaded == \A S \in SUBSET Ids : \A p \in S : Embedded(p) \subseteq Related(S)

\* The servers a note is delivered to are those of the actors it is addressed
\* to, and the Delete of a direct or subscribers-only post reaches all who
\* were sent the post, whoever has unsubscribed since.
DeliveryAgrees ==
    \A p \in Ids : posts[p].author \in Local /\ ~IsRepost(p) =>
        /\ Addressed(p) \cap Remote = DeleteNoteRecipients(p)
        /\ posts[p].visibility \in {"direct", "subscribers"} =>
              posts[p].sentTo \subseteq DeleteNoteRecipients(p)

\* "audience can't be expanded": nobody but its author can read a new reply of
\* a user that is not public without being able to read what it replies to.
RepliesDoNotWiden ==
    [][\A p \in DOMAIN posts' \ DOMAIN posts :
        LET post == posts'[p]
        IN  post.author \in Local /\ post.parent # None /\ post.visibility # "public" =>
              \A u \in Local \ {post.author} :
                  Visible(p, u)' => Visible(post.parent, u)]_vars
=============================================================================
