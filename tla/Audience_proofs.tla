----------------------------- MODULE Audience_proofs -----------------------------
(***************************************************************************)
(* Audience, for any sets of profiles and users and any number of posts:   *)
(* proofs that the lists agree with the check of single posts, that no     *)
(* list fails on an embedded post, that a thread is the whole              *)
(* conversation in order, that a Delete reaches whoever was sent the post, *)
(* and that replies do not widen the audience.                             *)
(***************************************************************************)
EXTENDS Audience, FiniteSetTheorems, SequenceTheorems, WellFoundedInduction, TLAPS

\* The authors of the post that p replies to, if there is one.
ParentAuthor(p) == {posts[q].author : q \in {posts[p].parent} \ {None}}

\* Whoever was sent a direct or subscribers-only post is mentioned in it or wrote
\* what it replies to: the collection of subscribers is not needed to find them.
SentToNamed ==
    \A p \in Ids :
        /\ posts[p].author \in Local /\ ~IsRepost(p)
        /\ posts[p].visibility \in {"direct", "subscribers"}
        => posts[p].sentTo \subseteq posts[p].mentions \cup ParentAuthor(p)

\* Only public posts are reposted, and the visibility of a post stays.
RepostsPublic ==
    \A p \in Ids : IsRepost(p) => posts[posts[p].original].visibility = "public"

IInv == TypeOK /\ SentToNamed /\ RepostsPublic

-----------------------------------------------------------------------------
(* The table of posts *)

LEMMA Rows ==
    ASSUME TypeOK
    PROVE  /\ Len(posts) \in Nat /\ Ids = 1..Len(posts)
           /\ None \notin Ids
           /\ \A p \in Ids : p \in Nat /\ posts[p] \in Post
<1>1. posts \in Seq(Post)
  BY DEF TypeOK
<1>2. Len(posts) \in Nat /\ DOMAIN posts = 1..Len(posts)
  BY <1>1, LenProperties
<1>3. \A p \in 1..Len(posts) : posts[p] \in Post
  BY <1>1, ElementOfSeq
<1> QED
  BY <1>2, <1>3, AudienceAssumption DEF Ids

LEMMA NewRow ==
    ASSUME TypeOK, NEW row \in Post, posts' = Append(posts, row), NEW new, new = Len(posts) + 1
    PROVE  /\ posts' \in Seq(Post)
           /\ Ids' = Ids \cup {new} /\ new \notin Ids /\ new # None
           /\ \A p \in Ids : posts'[p] = posts[p] /\ p < new
           /\ posts'[new] = row
<1>1. posts \in Seq(Post)
  BY DEF TypeOK
<1>2. /\ posts' \in Seq(Post) /\ Len(posts') = Len(posts) + 1
      /\ \A p \in 1..Len(posts) : posts'[p] = posts[p]
      /\ posts'[new] = row
  BY <1>1, AppendProperties
<1>3. Len(posts) \in Nat /\ Ids = 1..Len(posts)
  BY Rows
<1>4. Ids' = 1..(Len(posts) + 1)
  BY <1>2, LenProperties DEF Ids
<1>5. new # None
  BY <1>3, AudienceAssumption
<1> QED
  BY <1>2, <1>3, <1>4, <1>5

-----------------------------------------------------------------------------
(* What a list shows can be opened, and the other way round *)

LEMMA VisibleIsReadable ==
    ASSUME NEW p, NEW u
    PROVE  Visible(p, u) <=> posts[p].author = u \/ CanView(p, u)
BY DEF Visible, CanView

\* Any list can be opened, in every state; what an outbox names as an object can be
\* fetched because what is reposted is public.
LEMMA ListsAgree ==
    ASSUME TypeOK, RepostsPublic
    PROVE  ListsAgreeWithStatus
<1>1. ASSUME NEW u \in Local \cup {None}
      PROVE  /\ \A p \in Timelines(u, Ids) \ GetStatus(u) : posts[p].author = u
             /\ \A a \in Profile \ {u} : AccountStatuses(a, u, FALSE) =
                    {p \in GetStatus(u) : posts[p].author = a}
             /\ \A p \in GetStatus(u) : p \in SearchByUrl(p, u)
  <2>1. \A p \in Timelines(u, Ids) : p \in Ids /\ Visible(p, u)
    <3>1. \A p \in PostsByTag(Ids, u) \cup HomeTimeline(u) : p \in Ids /\ Visible(p, u)
      BY DEF PostsByTag, HomeTimeline
    <3>2. \A p \in LocalTimeline : p \in Ids /\ Visible(p, u)
      BY DEF LocalTimeline, Visible
    <3> QED
      BY <3>1, <3>2 DEF Timelines
  <2>2. \A p \in Timelines(u, Ids) \ GetStatus(u) : posts[p].author = u
    BY <2>1, VisibleIsReadable DEF GetStatus
  <2>3. ASSUME NEW a \in Profile \ {u}
        PROVE  AccountStatuses(a, u, FALSE) = {p \in GetStatus(u) : posts[p].author = a}
    BY <2>3, VisibleIsReadable DEF AccountStatuses, PostsByAuthor, GetStatus
  <2>4. \A p \in GetStatus(u) : p \in SearchByUrl(p, u)
    BY DEF GetStatus, SearchByUrl
  <2> QED
    BY <2>2, <2>3, <2>4
<1>2. Local \subseteq Profile /\ None \notin Local
  BY AudienceAssumption
<1>3. \A a \in Local : Outbox(a) = {p \in Ids : posts[p].author = a /\ CanView(p, None)}
  BY <1>2, VisibleIsReadable DEF Outbox, PostsByAuthor
<1>4. ASSUME NEW a \in Local, NEW p \in OutboxObjects(a), posts[p].author \in Local
      PROVE  p \in ObjectView
  <2>1. PICK q \in Outbox(a) : p = IF IsRepost(q) THEN posts[q].original ELSE q
    BY DEF OutboxObjects
  <2>2. q \in Ids /\ CanView(q, None)
    BY <1>3, <2>1
  <2>3. CASE IsRepost(q)
    <3>1. p = posts[q].original /\ posts[p].visibility = "public"
      BY <2>1, <2>2, <2>3 DEF RepostsPublic
    <3>2. p \in Ids
      BY <2>2, <2>3, <3>1 DEF TypeOK, IsRepost
    <3> QED
      BY <1>4, <3>1, <3>2 DEF ObjectView, CanView
  <2>4. CASE ~IsRepost(q)
    BY <1>4, <2>1, <2>2, <2>4 DEF ObjectView
  <2> QED
    BY <2>3, <2>4
<1>5. \A a \in Local : AtomFeed(a) \subseteq ObjectView
  BY <1>2, VisibleIsReadable DEF AtomFeed, PostsByAuthor, ObjectView
<1>6. ASSUME NEW p \in ObjectView, ~IsRepost(p)
      PROVE  p \in OutboxObjects(posts[p].author)
  <2>1. p \in Outbox(posts[p].author)
    BY <1>3 DEF ObjectView
  <2> QED
    BY <1>6, <2>1 DEF OutboxObjects
<1> QED
  BY <1>1, <1>4, <1>5, <1>6 DEF ListsAgreeWithStatus

LEMMA RelatedLoaded == EmbeddedLoaded
<1> SUFFICES ASSUME NEW S \in SUBSET Ids, NEW p \in S PROVE Embedded(p) \subseteq Related(S)
  BY DEF EmbeddedLoaded
<1> DEFINE Of(q) == ({posts[q].parent, posts[q].original} \ {None}) \cup posts[q].links
                      \cup (IF IsRepost(q) THEN posts[posts[q].original].links ELSE {})
<1>1. Related(S) = UNION {Of(q) : q \in S}
  BY DEF Related
<1>2. Embedded(p) \subseteq Of(p)
  BY DEF Embedded, IsRepost
<1> HIDE DEF Of
<1> QED
  BY <1>1, <1>2

-----------------------------------------------------------------------------
(* Steps *)

LEMMA RelKept ==
    ASSUME IInv, posts' = posts, rel' \subseteq RelationshipType \X Profile \X Profile
    PROVE  IInv'
<1>1. Ids' = Ids
  BY DEF Ids
<1>2. TypeOK'
  BY <1>1 DEF IInv, TypeOK, IsRepost
<1>3. SentToNamed'
  BY <1>1 DEF IInv, SentToNamed, IsRepost, ParentAuthor
<1>4. RepostsPublic'
  BY <1>1 DEF IInv, RepostsPublic, IsRepost
<1> QED
  BY <1>2, <1>3, <1>4 DEF IInv

\* What InsertPost is given by the views and handlers.
Insertable(a, visibility, parent, original, mentions, links, sentTo) ==
    /\ a \in Profile /\ visibility \in Visibility
    /\ parent \in Ids \cup {None} /\ original \in Ids \cup {None}
    /\ mentions \subseteq Profile /\ links \subseteq Ids /\ sentTo \subseteq Remote
    /\ parent # None => ~IsRepost(parent)
    /\ original # None => parent = None /\ mentions = {} /\ links = {}
    /\ original # None => posts[original].visibility = "public"
    /\ a \in Local /\ original = None /\ visibility \in {"direct", "subscribers"}
       => sentTo \subseteq mentions \cup {posts[q].author : q \in {parent} \ {None}}

LEMMA InsertIInv ==
    ASSUME IInv, NEW a, NEW visibility, NEW parent, NEW original, NEW mentions, NEW links, NEW sentTo,
           Insertable(a, visibility, parent, original, mentions, links, sentTo),
           InsertPost(a, visibility, parent, original, mentions, links, sentTo)
    PROVE  IInv'
<1>1. TypeOK
  BY DEF IInv
<1>2. PICK row : row = [author |-> a, visibility |-> visibility, parent |-> parent,
                        original |-> original, mentions |-> mentions, links |-> links,
                        sentTo |-> sentTo]
  OBVIOUS
<1>3. PICK new : new = Len(posts) + 1
  OBVIOUS
<1>4. posts' = Append(posts, row) /\ rel' = rel
  BY <1>2 DEF InsertPost
<1>5. /\ row.author = a /\ row.visibility = visibility /\ row.parent = parent
      /\ row.original = original /\ row.mentions = mentions /\ row.links = links
      /\ row.sentTo = sentTo
  BY <1>2
<1>6. row \in Post
  <2>1. Ids \subseteq Nat
    BY <1>1, Rows
  <2>2. /\ a \in Profile /\ visibility \in Visibility /\ parent \in Nat \cup {None}
        /\ original \in Nat \cup {None} /\ mentions \in SUBSET Profile /\ links \in SUBSET Nat
        /\ sentTo \in SUBSET Remote
    BY <2>1 DEF Insertable
  <2> QED
    BY <1>2, <2>2 DEF Post
<1>7. /\ posts' \in Seq(Post)
      /\ Ids' = Ids \cup {new} /\ new \notin Ids /\ new # None
      /\ \A p \in Ids : posts'[p] = posts[p] /\ p < new
      /\ posts'[new] = row
  BY <1>1, <1>3, <1>4, <1>6, NewRow
<1>8. \A p \in Ids : IsRepost(p)' <=> IsRepost(p)
  BY <1>7 DEF IsRepost
<1>9. /\ parent \in Ids \cup {None} /\ original \in Ids \cup {None} /\ links \subseteq Ids
      /\ parent # None => ~IsRepost(parent)
      /\ original # None => parent = None /\ mentions = {} /\ links = {}
      /\ original # None => posts[original].visibility = "public"
      /\ a \in Local /\ original = None /\ visibility \in {"direct", "subscribers"}
         => sentTo \subseteq mentions \cup {posts[q].author : q \in {parent} \ {None}}
  BY DEF Insertable
<1>10. TypeOK'
  <2>1. ASSUME NEW p \in Ids'
        PROVE  /\ ({posts'[p].parent, posts'[p].original} \ {None}) \cup posts'[p].links \subseteq Ids'
               /\ posts'[p].original # None =>
                    posts'[p].parent = None /\ posts'[p].mentions = {} /\ posts'[p].links = {}
               /\ posts'[p].parent # None => posts'[p].parent < p /\ posts'[posts'[p].parent].original = None
    <3>1. CASE p = new
      <4>1. parent # None => posts'[parent].original = None /\ parent < new
        BY <1>7, <1>9 DEF IsRepost
      <4> QED
        BY <1>5, <1>7, <1>9, <3>1, <4>1
    <3>2. CASE p \in Ids
      <4>1. /\ ({posts[p].parent, posts[p].original} \ {None}) \cup posts[p].links \subseteq Ids
            /\ posts[p].original # None =>
                 posts[p].parent = None /\ posts[p].mentions = {} /\ posts[p].links = {}
            /\ posts[p].parent # None => posts[p].parent < p /\ ~IsRepost(posts[p].parent)
        BY <1>1, <3>2 DEF TypeOK
      <4>2. posts[p].parent # None => posts[p].parent \in Ids
        BY <4>1
      <4>3. posts'[p] = posts[p]
        BY <1>7, <3>2
      <4>4. posts[p].parent # None => posts'[posts[p].parent].original = None
        BY <1>7, <4>1, <4>2 DEF IsRepost
      <4> QED
        BY <1>7, <4>1, <4>3, <4>4
    <3> QED
      BY <1>7, <3>1, <3>2
  <2>2. rel' \subseteq RelationshipType \X Profile \X Profile
    BY <1>1, <1>4 DEF TypeOK
  <2>3. \A p \in Ids' : posts'[p].parent # None => ~(posts'[posts'[p].parent].original # None)
    BY <2>1
  <2> QED
    BY <1>7, <2>1, <2>2, <2>3 DEF TypeOK, IsRepost
<1>11. SentToNamed'
  <2> SUFFICES ASSUME NEW p \in Ids', posts'[p].author \in Local, ~IsRepost(p)',
                      posts'[p].visibility \in {"direct", "subscribers"}
               PROVE  posts'[p].sentTo \subseteq posts'[p].mentions \cup ParentAuthor(p)'
    BY DEF SentToNamed
  <2>1. CASE p = new
    <3>1. sentTo \subseteq mentions \cup {posts[q].author : q \in {parent} \ {None}}
      BY <1>5, <1>7, <1>9, <2>1 DEF IsRepost
    <3>2. ParentAuthor(p)' = {posts'[q].author : q \in {parent} \ {None}}
      BY <1>5, <1>7, <2>1 DEF ParentAuthor
    <3>3. \A q \in {parent} \ {None} : posts'[q] = posts[q]
      BY <1>7, <1>9
    <3> QED
      BY <1>5, <1>7, <2>1, <3>1, <3>2, <3>3
  <2>2. CASE p \in Ids
    <3>1. posts'[p] = posts[p] /\ ~IsRepost(p)
      BY <1>7, <1>8, <2>2
    <3>2. posts[p].sentTo \subseteq posts[p].mentions \cup ParentAuthor(p)
      BY <2>2, <3>1 DEF IInv, SentToNamed
    <3>3. \A q \in {posts[p].parent} \ {None} : posts'[q] = posts[q]
      BY <1>1, <1>7, <2>2 DEF TypeOK
    <3>4. ParentAuthor(p)' = ParentAuthor(p)
      BY <3>1, <3>3 DEF ParentAuthor
    <3> QED
      BY <3>1, <3>2, <3>4
  <2> QED
    BY <1>7, <2>1, <2>2
<1>12. RepostsPublic'
  <2> SUFFICES ASSUME NEW p \in Ids', posts'[p].original # None
               PROVE  posts'[posts'[p].original].visibility = "public"
    BY DEF RepostsPublic, IsRepost
  <2>1. CASE p = new
    BY <1>5, <1>7, <1>9, <2>1
  <2>2. CASE p \in Ids
    <3>1. posts'[p] = posts[p] /\ posts[p].original \in Ids
      BY <1>1, <1>7, <2>2 DEF TypeOK
    <3> QED
      BY <1>7, <2>2, <3>1 DEF IInv, RepostsPublic, IsRepost
  <2> QED
    BY <1>7, <2>1, <2>2
<1> QED
  BY <1>10, <1>11, <1>12 DEF IInv

LEMMA SubscribersAreProfiles ==
    ASSUME NEW a
    PROVE  Subscribers(a) \subseteq Profile
BY DEF Subscribers

\* create_status hands InsertPost a row, of which create_post_mentions names whoever
\* of the subscribers is sent the post.
LEMMA CreateStatusInserts ==
    ASSUME IInv, NEW a \in Local, NEW visibility \in Visibility, NEW parent \in Ids \cup {None},
           NEW named \in SUBSET Profile, NEW links \in SUBSET Ids,
           CreateStatus(a, visibility, parent, named, links)
    PROVE  LET mentions == AllMentions(a, visibility, named)
           IN  /\ Insertable(a, visibility, parent, None, mentions, links,
                             Recipients(a, visibility, parent, mentions))
               /\ InsertPost(a, visibility, parent, None, mentions, links,
                             Recipients(a, visibility, parent, mentions))
               /\ parent # None => MayReply(parent, visibility, mentions)
<1>1. PICK mentions : mentions = AllMentions(a, visibility, named)
  OBVIOUS
<1>2. PICK sentTo : sentTo = Recipients(a, visibility, parent, mentions)
  OBVIOUS
<1>3. /\ parent # None => MayReply(parent, visibility, mentions)
      /\ InsertPost(a, visibility, parent, None, mentions, links, sentTo)
  BY <1>1, <1>2 DEF CreateStatus
<1>4. mentions \subseteq Profile
  BY <1>1, SubscribersAreProfiles DEF AllMentions
<1>5. sentTo \subseteq Remote
  BY <1>2 DEF Recipients
<1>6. ASSUME visibility \in {"direct", "subscribers"}
      PROVE  sentTo \subseteq mentions \cup {posts[q].author : q \in {parent} \ {None}}
  <2>1. CASE visibility = "direct"
    BY <1>2, <2>1 DEF Recipients
  <2>2. CASE visibility = "subscribers"
    <3>1. Subscribers(a) \subseteq mentions
      BY <1>1, <2>2 DEF AllMentions
    <3>2. sentTo \subseteq Subscribers(a) \cup mentions \cup {posts[q].author : q \in {parent} \ {None}}
      BY <1>2, <2>2 DEF Recipients
    <3> QED
      BY <3>1, <3>2
  <2> QED
    BY <1>6, <2>1, <2>2
<1>7. parent # None => ~IsRepost(parent)
  BY <1>3 DEF MayReply
<1>8. Insertable(a, visibility, parent, None, mentions, links, sentTo)
  BY <1>4, <1>5, <1>6, <1>7, AudienceAssumption DEF Insertable
<1> QED
  BY <1>1, <1>2, <1>3, <1>8

\* The other ways to insert a post.
LEMMA ReblogInserts ==
    ASSUME IInv, NEW a \in Profile, NEW original \in Ids, Reblog(a, original) \/ HandleAnnounce(a, original)
    PROVE  \E sentTo \in SUBSET Remote :
              /\ Insertable(a, "public", None, original, {}, {}, sentTo)
              /\ InsertPost(a, "public", None, original, {}, {}, sentTo)
<1>1. AnnounceRecipients(a, original) \subseteq Remote
  BY DEF AnnounceRecipients
<1>2. PICK sentTo \in SUBSET Remote : InsertPost(a, "public", None, original, {}, {}, sentTo)
  BY <1>1 DEF Reblog, HandleAnnounce
<1>3. posts[original].visibility = "public"
  BY DEF Reblog, HandleAnnounce
<1>4. Insertable(a, "public", None, original, {}, {}, sentTo)
  BY <1>3 DEF Insertable, Visibility
<1> QED
  BY <1>2, <1>4

LEMMA HandleNoteInserts ==
    ASSUME IInv, NEW a \in Profile, NEW audience, NEW parent \in Ids \cup {None},
           NEW mentions \in SUBSET Profile, NEW links \in SUBSET Ids,
           HandleNote(a, audience, parent, mentions, links)
    PROVE  \E visibility \in Visibility :
              /\ a \notin Local
              /\ Insertable(a, visibility, parent, None, mentions, links, {})
              /\ InsertPost(a, visibility, parent, None, mentions, links, {})
<1>1. PICK visibility : visibility = ObjectVisibility(audience)
  OBVIOUS
<1>2. visibility \in Visibility
  BY <1>1 DEF ObjectVisibility, Visibility
<1>3. /\ a \notin Local
      /\ parent # None => ~IsRepost(parent)
      /\ InsertPost(a, visibility, parent, None, mentions, links, {})
  BY <1>1 DEF HandleNote, Remote
<1>4. Insertable(a, visibility, parent, None, mentions, links, {})
  BY <1>2, <1>3 DEF Insertable
<1> QED
  BY <1>2, <1>3, <1>4

LEMMA UpdateNoteIInv ==
    ASSUME IInv, NEW p \in Ids, NEW mentions \in SUBSET Profile, NEW links \in SUBSET Ids,
           HandleUpdateNote(p, mentions, links)
    PROVE  IInv' /\ Ids' = Ids
<1>1. TypeOK /\ posts \in Seq(Post) /\ Ids = 1..Len(posts) /\ posts[p] \in Post /\ Ids \subseteq Nat
  BY Rows DEF IInv, TypeOK
<1>2. PICK r : r = posts[p]
  OBVIOUS
<1>3. PICK x : x = [r EXCEPT !.mentions = mentions, !.links = links]
  OBVIOUS
<1>4. posts' = [posts EXCEPT ![p] = x] /\ rel' = rel /\ r.author \in Remote /\ r.original = None
  BY <1>2, <1>3 DEF HandleUpdateNote, IsRepost
<1>5. /\ x.author = r.author /\ x.visibility = r.visibility /\ x.parent = r.parent
      /\ x.original = r.original /\ x.mentions = mentions /\ x.links = links
      /\ x.sentTo = r.sentTo
  BY <1>1, <1>2, <1>3 DEF Post
<1>6. x \in Post
  <2>1. links \in SUBSET Nat
    BY <1>1
  <2> QED
    BY <1>1, <1>2, <1>3, <2>1 DEF Post
<1>7. /\ posts' \in Seq(Post) /\ Len(posts') = Len(posts)
      /\ \A j \in Ids : posts'[j] = IF j = p THEN x ELSE posts[j]
  BY <1>1, <1>4, <1>6, ExceptSeq
<1>8. Ids' = Ids
  BY <1>1, <1>7, LenProperties DEF Ids
<1>9. \A j \in Ids : /\ posts'[j].author = posts[j].author /\ posts'[j].parent = posts[j].parent
                     /\ posts'[j].original = posts[j].original
  BY <1>2, <1>5, <1>7
<1>10. TypeOK'
  <2>1. ASSUME NEW j \in Ids
        PROVE  /\ ({posts'[j].parent, posts'[j].original} \ {None}) \cup posts'[j].links \subseteq Ids
               /\ posts'[j].original # None =>
                    posts'[j].parent = None /\ posts'[j].mentions = {} /\ posts'[j].links = {}
               /\ posts'[j].parent # None =>
                    posts'[j].parent < j /\ posts'[posts'[j].parent].original = None
    <3>1. /\ {posts[j].parent, posts[j].original} \ {None} \subseteq Ids
          /\ posts[j].links \subseteq Ids
          /\ posts[j].original # None =>
               posts[j].parent = None /\ posts[j].mentions = {} /\ posts[j].links = {}
          /\ posts[j].parent # None =>
               posts[j].parent < j /\ posts[j].parent \in Ids /\ posts[posts[j].parent].original = None
      BY <1>1 DEF TypeOK, IsRepost
    <3>2. posts'[j].parent # None =>
            posts'[j].parent < j /\ posts'[posts'[j].parent].original = None
      BY <1>9, <3>1
    <3>3. CASE j = p
      BY <1>2, <1>4, <1>5, <1>7, <3>1, <3>2, <3>3
    <3>4. CASE j # p
      BY <1>7, <3>1, <3>2, <3>4
    <3> QED
      BY <3>3, <3>4
  <2>2. rel' \subseteq RelationshipType \X Profile \X Profile
    BY <1>1, <1>4 DEF TypeOK
  <2>3. \A j \in Ids' : posts'[j].parent # None => ~(posts'[posts'[j].parent].original # None)
    BY <1>8, <2>1
  <2> QED
    BY <1>7, <1>8, <2>1, <2>2, <2>3 DEF TypeOK, IsRepost
<1>11. SentToNamed'
  <2> SUFFICES ASSUME NEW j \in Ids, posts'[j].author \in Local, ~(posts'[j].original # None),
                      posts'[j].visibility \in {"direct", "subscribers"}
               PROVE  posts'[j].sentTo \subseteq posts'[j].mentions \cup ParentAuthor(j)'
    BY <1>8 DEF SentToNamed, IsRepost
  <2>1. j # p
    BY <1>2, <1>4, <1>9 DEF Remote
  <2>2. posts'[j] = posts[j]
    BY <1>7, <2>1
  <2>3. posts[j].sentTo \subseteq posts[j].mentions \cup ParentAuthor(j)
    BY <2>2 DEF IInv, SentToNamed, IsRepost
  <2>4. \A q \in {posts[j].parent} \ {None} : posts'[q].author = posts[q].author
    BY <1>1, <1>9 DEF TypeOK
  <2>5. ParentAuthor(j)' = ParentAuthor(j)
    BY <2>2, <2>4 DEF ParentAuthor
  <2> QED
    BY <2>2, <2>3, <2>5
<1>12. RepostsPublic'
  <2> SUFFICES ASSUME NEW j \in Ids, posts'[j].original # None
               PROVE  posts'[posts'[j].original].visibility = "public"
    BY <1>8 DEF RepostsPublic, IsRepost
  <2>1. posts'[j].original = posts[j].original /\ posts[j].original \in Ids
    BY <1>1, <1>9 DEF TypeOK
  <2>2. posts'[posts[j].original].visibility = posts[posts[j].original].visibility
    BY <1>2, <1>5, <1>7, <2>1
  <2> QED
    BY <2>1, <2>2 DEF IInv, RepostsPublic, IsRepost
<1> QED
  BY <1>8, <1>10, <1>11, <1>12 DEF IInv

\* Follows, subscriptions and what is hidden: rows between profiles.
LEMMA RelateRows ==
    ASSUME IInv, Relate
    PROVE  posts' = posts /\ rel' \subseteq RelationshipType \X Profile \X Profile
<1>0. PICK s \in Profile : \E t \in Profile \ {s} :
        \/ \E reblogs, replies \in BOOLEAN : FollowAccount(s, t, reblogs, replies)
        \/ UnfollowAccount(s, t) \/ MuteAccount(s, t) \/ UnmuteAccount(s, t)
        \/ RemoteFollow(s, t) \/ Subscribe(s, t) \/ Unsubscribe(s, t)
  BY DEF Relate
<1>1. PICK t \in Profile \ {s} :
        \/ \E reblogs, replies \in BOOLEAN : FollowAccount(s, t, reblogs, replies)
        \/ UnfollowAccount(s, t) \/ MuteAccount(s, t) \/ UnmuteAccount(s, t)
        \/ RemoteFollow(s, t) \/ Subscribe(s, t) \/ Unsubscribe(s, t)
  BY <1>0
<1>2. rel \subseteq RelationshipType \X Profile \X Profile
  BY DEF IInv, TypeOK
<1>3. \A type \in RelationshipType : <<type, s, t>> \in RelationshipType \X Profile \X Profile
  OBVIOUS
<1>4. {"follow", "subscription", "hide_reposts", "hide_replies", "mute"} = RelationshipType
  BY DEF RelationshipType
<1> DEFINE Rows5 == RelationshipType \X Profile \X Profile
<1>5. \A type \in RelationshipType, hidden \in BOOLEAN :
        \A rows \in SUBSET Rows5 : SetHidden(rows, type, s, t, hidden) \in SUBSET Rows5
  BY <1>3 DEF SetHidden
<1>6. ASSUME NEW reblogs \in BOOLEAN, NEW replies \in BOOLEAN, FollowAccount(s, t, reblogs, replies)
      PROVE  posts' = posts /\ rel' \subseteq Rows5
  <2> DEFINE follow == {<<"follow", s, t>> : x \in {t} \cap Local}
  <2>1. PICK one : one = rel \cup follow
    OBVIOUS
  <2>2. one \in SUBSET Rows5
    BY <1>2, <1>3, <1>4, <2>1
  <2>3. rel' = SetHidden(SetHidden(one, "hide_reposts", s, t, ~reblogs), "hide_replies", s, t, ~replies)
        /\ posts' = posts
    BY <1>6, <2>1 DEF FollowAccount
  <2>4. SetHidden(one, "hide_reposts", s, t, ~reblogs) \in SUBSET Rows5
    BY <1>4, <1>5, <2>2
  <2> QED
    BY <1>4, <1>5, <2>3, <2>4
<1>7. CASE UnfollowAccount(s, t) \/ Unsubscribe(s, t)
  BY <1>2, <1>7 DEF UnfollowAccount, Unsubscribe
<1>8. CASE MuteAccount(s, t) \/ UnmuteAccount(s, t)
  <2>1. PICK hidden \in BOOLEAN : rel' = SetHidden(rel, "mute", s, t, hidden) /\ posts' = posts
    BY <1>8 DEF MuteAccount, UnmuteAccount
  <2> QED
    BY <1>2, <1>4, <1>5, <2>1
<1>9. CASE RemoteFollow(s, t) \/ Subscribe(s, t)
  BY <1>2, <1>3, <1>4, <1>9 DEF RemoteFollow, Subscribe
<1> QED
  BY <1>1, <1>6, <1>7, <1>8, <1>9

LEMMA TagsOf ==
    ASSUME NEW a, NEW tags \in Tags(a)
    PROVE  tags[1] \in SUBSET Profile /\ tags[2] \in SUBSET Ids
BY DEF Tags

\* A post is written by a user ...
StatusStep ==
    \E a \in Local, visibility \in Visibility, parent \in Ids \cup {None} :
        \E named \in SUBSET Profile, links \in SUBSET Ids :
            CreateStatus(a, visibility, parent, named, links)

\* ... or is a repost or the note of a remote actor.
OtherInsertStep ==
    \E a \in Profile, visibility \in Visibility, parent \in Ids \cup {None},
       original \in Ids \cup {None} :
        \E mentions \in SUBSET Profile, links \in SUBSET Ids, sentTo \in SUBSET Remote :
            /\ a \notin Local \/ visibility = "public"
            /\ Insertable(a, visibility, parent, original, mentions, links, sentTo)
            /\ InsertPost(a, visibility, parent, original, mentions, links, sentTo)

LEMMA KindsOfSteps ==
    ASSUME IInv, Next
    PROVE  \/ StatusStep \/ OtherInsertStep
           \/ \E p \in Ids, mentions \in SUBSET Profile, links \in SUBSET Ids :
                HandleUpdateNote(p, mentions, links)
           \/ Relate
<1>1. Local \subseteq Profile
  BY AudienceAssumption
<1>2. ASSUME NEW a \in Local, NEW parent \in Ids \cup {None}, NEW tags \in Tags(a),
             NEW visibility \in Visibility, CreateStatus(a, visibility, parent, tags[1], tags[2])
      PROVE  StatusStep
  BY <1>2, TagsOf DEF StatusStep
<1>3. ASSUME NEW a \in Profile, NEW p \in Ids, Reblog(a, p) \/ HandleAnnounce(a, p)
      PROVE  OtherInsertStep
  <2>1. "public" \in Visibility /\ {} \in SUBSET Profile /\ {} \in SUBSET Ids
    BY DEF Visibility
  <2>2. \E sentTo \in SUBSET Remote :
           /\ Insertable(a, "public", None, p, {}, {}, sentTo)
           /\ InsertPost(a, "public", None, p, {}, {}, sentTo)
    BY <1>3, ReblogInserts
  <2> QED
    BY <2>1, <2>2 DEF OtherInsertStep
<1>4. ASSUME NEW a \in Remote, NEW parent \in Ids \cup {None}, NEW tags \in Tags(a),
             NEW audience, HandleNote(a, audience, parent, tags[1], tags[2])
      PROVE  OtherInsertStep
  <2>1. tags[1] \in SUBSET Profile /\ tags[2] \in SUBSET Ids /\ a \in Profile
    BY TagsOf DEF Remote
  <2>2. \E visibility \in Visibility :
           /\ a \notin Local
           /\ Insertable(a, visibility, parent, None, tags[1], tags[2], {})
           /\ InsertPost(a, visibility, parent, None, tags[1], tags[2], {})
    BY <1>4, <2>1, HandleNoteInserts
  <2> QED
    BY <2>1, <2>2 DEF OtherInsertStep
<1>5. ASSUME NEW p \in Ids, NEW tags \in Tags(posts[p].author), HandleUpdateNote(p, tags[1], tags[2])
      PROVE  \E q \in Ids, mentions \in SUBSET Profile, links \in SUBSET Ids :
                HandleUpdateNote(q, mentions, links)
  BY <1>5, TagsOf
<1>6. CASE Write
  <2>1. CASE \E a \in Local :
              \/ \E parent \in Ids \cup {None}, tags \in Tags(a), visibility \in Visibility :
                    CreateStatus(a, visibility, parent, tags[1], tags[2])
              \/ \E p \in Ids : Reblog(a, p)
    BY <1>1, <1>2, <1>3, <2>1
  <2>2. CASE \E a \in Remote :
              \/ \E parent \in Ids \cup {None}, tags \in Tags(a), audience \in Audiences :
                    HandleNote(a, audience, parent, tags[1], tags[2])
              \/ \E p \in Ids : HandleAnnounce(a, p)
    <3>1. Remote \subseteq Profile
      BY DEF Remote
    <3> QED
      BY <1>3, <1>4, <2>2, <3>1
  <2> QED
    BY <1>6, <2>1, <2>2 DEF Write
<1>7. CASE Update
  BY <1>5, <1>7 DEF Update
<1> QED
  BY <1>6, <1>7 DEF Next

LEMMA NextIInv ==
    ASSUME IInv, [Next]_vars
    PROVE  IInv'
<1>1. CASE UNCHANGED vars
  <2>1. posts' = posts /\ rel' = rel /\ rel \subseteq RelationshipType \X Profile \X Profile
    BY <1>1 DEF vars, IInv, TypeOK
  <2> QED
    BY <2>1, RelKept
<1>2. CASE StatusStep
  <2>1. PICK a \in Local, visibility \in Visibility, parent \in Ids \cup {None} :
          \E named \in SUBSET Profile, links \in SUBSET Ids :
            CreateStatus(a, visibility, parent, named, links)
    BY <1>2 DEF StatusStep
  <2>2. PICK named \in SUBSET Profile, links \in SUBSET Ids :
            CreateStatus(a, visibility, parent, named, links)
    BY <2>1
  <2>3. LET mentions == AllMentions(a, visibility, named)
        IN  /\ Insertable(a, visibility, parent, None, mentions, links,
                          Recipients(a, visibility, parent, mentions))
            /\ InsertPost(a, visibility, parent, None, mentions, links,
                          Recipients(a, visibility, parent, mentions))
    BY <2>2, CreateStatusInserts
  <2> QED
    BY <2>3, InsertIInv
<1>3. CASE OtherInsertStep
  BY <1>3, InsertIInv DEF OtherInsertStep
<1>4. CASE \E p \in Ids, mentions \in SUBSET Profile, links \in SUBSET Ids :
              HandleUpdateNote(p, mentions, links)
  BY <1>4, UpdateNoteIInv
<1>5. CASE Relate
  BY <1>5, RelateRows, RelKept
<1> QED
  BY <1>1, <1>2, <1>3, <1>4, <1>5, KindsOfSteps

LEMMA InitIInv == Init => IInv
<1> SUFFICES ASSUME Init PROVE IInv
  OBVIOUS
<1>1. posts = <<>> /\ rel = {}
  BY DEF Init
<1>2. posts \in Seq(Post) /\ Len(posts) = 0
  BY <1>1, EmptySeq
<1>3. Ids = {}
  BY <1>2, LenProperties DEF Ids
<1> QED
  BY <1>1, <1>2, <1>3 DEF IInv, TypeOK, SentToNamed, RepostsPublic

LEMMA SpecIInv == Spec => []IInv
BY InitIInv, NextIInv, PTL DEF Spec

-----------------------------------------------------------------------------
(* Deliveries *)

LEMMA Deliveries ==
    ASSUME IInv
    PROVE  DeliveryAgrees
<1> SUFFICES ASSUME NEW p \in Ids, posts[p].author \in Local, ~IsRepost(p)
             PROVE  /\ Addressed(p) \cap Remote = DeleteNoteRecipients(p)
                    /\ posts[p].visibility \in {"direct", "subscribers"} =>
                          posts[p].sentTo \subseteq DeleteNoteRecipients(p)
  BY DEF DeliveryAgrees
<1> DEFINE audience ==
             CASE posts[p].visibility \in {"public", "followers"} -> Followers(posts[p].author)
               [] posts[p].visibility = "subscribers" -> Subscribers(posts[p].author)
               [] OTHER -> {}
<1>1. Addressed(p) = audience \cup posts[p].mentions \cup ParentAuthor(p)
  BY DEF Addressed, ParentAuthor
<1>2. DeleteNoteRecipients(p) = (audience \cup ParentAuthor(p) \cup posts[p].mentions) \cap Remote
  BY DEF DeleteNoteRecipients, Recipients, ParentAuthor
<1> HIDE DEF audience
<1>3. ASSUME posts[p].visibility \in {"direct", "subscribers"}
      PROVE  posts[p].sentTo \subseteq DeleteNoteRecipients(p)
  <2>1. posts[p].sentTo \subseteq posts[p].mentions \cup ParentAuthor(p)
    BY <1>3 DEF IInv, SentToNamed
  <2>2. posts[p].sentTo \subseteq Remote
    <3>1. posts[p] \in Post
      BY Rows DEF IInv
    <3> QED
      BY <3>1 DEF Post
  <2> QED
    BY <1>2, <2>1, <2>2
<1> QED
  BY <1>1, <1>2, <1>3

-----------------------------------------------------------------------------
(* Replies *)

\* No new reply of a user that is not public is for more people than its parent.
Narrows ==
    \A p \in Ids' \ Ids :
        posts'[p].author \in Local /\ posts'[p].parent # None /\ posts'[p].visibility # "public" =>
            \A u \in Local \ {posts'[p].author} :
                Visible(p, u)' => Visible(posts'[p].parent, u)

\* The row that InsertPost adds.
LEMMA InsertedRow ==
    ASSUME IInv, NEW a, NEW visibility, NEW parent, NEW original, NEW mentions, NEW links, NEW sentTo,
           Insertable(a, visibility, parent, original, mentions, links, sentTo),
           InsertPost(a, visibility, parent, original, mentions, links, sentTo),
           NEW p \in Ids' \ Ids
    PROVE  /\ posts'[p].author = a /\ posts'[p].visibility = visibility
           /\ posts'[p].parent = parent /\ posts'[p].mentions = mentions
           /\ rel' = rel
<1>1. PICK row : row = [author |-> a, visibility |-> visibility, parent |-> parent,
                        original |-> original, mentions |-> mentions, links |-> links,
                        sentTo |-> sentTo]
  OBVIOUS
<1>2. PICK new : new = Len(posts) + 1
  OBVIOUS
<1>3. posts' = Append(posts, row) /\ rel' = rel
  BY <1>1 DEF InsertPost
<1>4. row \in Post
  <2>1. Ids \subseteq Nat
    BY Rows DEF IInv
  <2>2. /\ a \in Profile /\ visibility \in Visibility /\ parent \in Nat \cup {None}
        /\ original \in Nat \cup {None} /\ mentions \in SUBSET Profile /\ links \in SUBSET Nat
        /\ sentTo \in SUBSET Remote
    BY <2>1 DEF Insertable
  <2> QED
    BY <1>1, <2>2 DEF Post
<1>5. Ids' = Ids \cup {new} /\ posts'[new] = row
  BY <1>2, <1>3, <1>4, NewRow DEF IInv
<1>6. posts'[p] = row
  BY <1>5
<1>7. row.author = a /\ row.visibility = visibility /\ row.parent = parent /\ row.mentions = mentions
  BY <1>1
<1> QED
  BY <1>3, <1>6, <1>7

LEMMA StepNarrows ==
    ASSUME IInv, [Next]_vars
    PROVE  Narrows
<1>1. CASE Ids' = Ids
  BY <1>1 DEF Narrows
<1>2. CASE UNCHANGED vars
  <2>1. Ids' = Ids
    BY <1>2 DEF vars, Ids
  <2> QED
    BY <1>1, <2>1
<1>3. CASE StatusStep
  <2>1. PICK a \in Local, visibility \in Visibility, parent \in Ids \cup {None} :
          \E named \in SUBSET Profile, links \in SUBSET Ids :
            CreateStatus(a, visibility, parent, named, links)
    BY <1>3 DEF StatusStep
  <2>2. PICK named \in SUBSET Profile, links \in SUBSET Ids :
            CreateStatus(a, visibility, parent, named, links)
    BY <2>1
  <2>3. PICK mentions : mentions = AllMentions(a, visibility, named)
    OBVIOUS
  <2>4. PICK sentTo : sentTo = Recipients(a, visibility, parent, mentions)
    OBVIOUS
  <2>5. /\ Insertable(a, visibility, parent, None, mentions, links, sentTo)
        /\ InsertPost(a, visibility, parent, None, mentions, links, sentTo)
        /\ parent # None => MayReply(parent, visibility, mentions)
    BY <2>2, <2>3, <2>4, CreateStatusInserts
  <2> SUFFICES ASSUME NEW p \in Ids' \ Ids, posts'[p].parent # None,
                      posts'[p].visibility # "public",
                      NEW u \in Local \ {posts'[p].author}, Visible(p, u)'
               PROVE  Visible(posts'[p].parent, u)
    BY DEF Narrows
  <2>6. /\ posts'[p].author = a /\ posts'[p].visibility = visibility
        /\ posts'[p].parent = parent /\ posts'[p].mentions = mentions
        /\ rel' = rel
    BY <2>5, InsertedRow
  <2>7. MayReply(parent, visibility, mentions) /\ visibility # "public"
    BY <2>5, <2>6
  <2>8. u \in mentions \/ (visibility = "followers" /\ Row("follow", u, a)')
    BY <2>6, <2>7 DEF Visible
  <2>9. CASE posts[parent].visibility = "public"
    BY <2>6, <2>9 DEF Visible
  <2>10. CASE posts[parent].visibility # "public"
    <3>1. visibility = "direct" /\ mentions \subseteq posts[parent].mentions \cup {posts[parent].author}
      BY <2>7, <2>10 DEF MayReply
    <3>2. u \in posts[parent].mentions \/ posts[parent].author = u
      BY <2>8, <3>1
    <3> QED
      BY <2>6, <3>2 DEF Visible
  <2> QED
    BY <2>9, <2>10
<1>4. CASE OtherInsertStep
  <2> SUFFICES ASSUME NEW p \in Ids' \ Ids
               PROVE  posts'[p].author \notin Local \/ posts'[p].visibility = "public"
    BY DEF Narrows
  <2> QED
    BY <1>4, InsertedRow DEF OtherInsertStep
<1>5. CASE \E p \in Ids, mentions \in SUBSET Profile, links \in SUBSET Ids :
              HandleUpdateNote(p, mentions, links)
  BY <1>1, <1>5, UpdateNoteIInv
<1>6. CASE Relate
  <2>1. Ids' = Ids
    BY <1>6, RelateRows DEF Ids
  <2> QED
    BY <1>1, <2>1
<1> QED
  BY <1>2, <1>3, <1>4, <1>5, <1>6, KindsOfSteps

-----------------------------------------------------------------------------
(* Conversations *)

LEMMA LeastNat ==
    ASSUME NEW S \in SUBSET Nat, S # {}
    PROVE  \E m \in S : \A n \in S : m <= n
<1> DEFINE R == OpToRel(<, Nat)
<1>1. IsWellFoundedOn(R, Nat)
  BY NatLessThanWellFounded
<1>2. \A x \in Nat, y \in Nat : <<x, y>> \in R <=> x < y
  BY DEF OpToRel
<1> HIDE DEF R
<1>3. PICK m \in S : \A n \in S : <<n, m>> \notin R
  BY <1>1, WFMin
<1>4. m \in Nat
  OBVIOUS
<1>5. ASSUME NEW n \in S PROVE m <= n
  <2>1. n \in Nat /\ ~(n < m)
    BY <1>2, <1>3, <1>4
  <2> QED
    BY <1>4, <2>1
<1> QED
  BY <1>5


\* The post that p replies to, if there is one.
Parents(p) == {posts[p].parent} \ {None}

\* Replies are to older posts, which are no reposts.
LEMMA Older ==
    ASSUME TypeOK, NEW p \in Ids
    PROVE  /\ p \in Nat /\ p >= 1
           /\ posts[p].parent # None =>
                /\ posts[p].parent \in Ids /\ posts[p].parent < p
                /\ Parents(p) = {posts[p].parent}
                /\ ~IsRepost(posts[p].parent) /\ ~IsRepost(p)
           /\ posts[p].parent = None => Parents(p) = {}
<1>1. p \in Nat /\ p >= 1
  BY Rows
<1>2. posts[p].parent # None => posts[p].parent \in Ids
  BY DEF TypeOK
<1> QED
  BY <1>1, <1>2 DEF TypeOK, IsRepost, Parents

\* What is above p is in every set that has the parent of p and, with a post, its
\* parent; the posts in all those sets solve the equation of Above.
Upward(S) == \A q \in S : Parents(q) \subseteq S

Over(p) == {q \in Ids : \A S \in SUBSET Ids : Upward(S) /\ Parents(p) \subseteq S => q \in S}

LEMMA OverRoot ==
    ASSUME NEW p \in Ids, Parents(p) = {}
    PROVE  Over(p) = {}
<1>1. {} \in SUBSET Ids /\ Upward({})
  BY DEF Upward
<1> QED
  BY <1>1 DEF Over

LEMMA OverReply ==
    ASSUME TypeOK, NEW p \in Ids, NEW q \in Ids, Parents(p) = {q}
    PROVE  Over(p) = {q} \cup Over(q)
<1> DEFINE T == {q} \cup Over(q)
<1>1. ASSUME NEW S \in SUBSET Ids, Upward(S), q \in S PROVE T \subseteq S
  <2>1. Parents(q) \subseteq S
    BY <1>1 DEF Upward
  <2> QED
    BY <1>1, <2>1 DEF Over
<1>2. T \subseteq Over(p)
  BY <1>1 DEF Over
<1>3. ASSUME NEW x \in T, NEW y \in Parents(x) PROVE y \in Over(q)
  <2>0. y \in Ids
    BY <1>3, Older DEF Over, Parents
  <2> SUFFICES ASSUME NEW S \in SUBSET Ids, Upward(S), Parents(q) \subseteq S
               PROVE  y \in S
    BY <2>0 DEF Over
  <2>1. CASE x = q
    BY <1>3, <2>1
  <2>2. CASE x \in Over(q)
    <3>1. x \in S
      BY <2>2 DEF Over
    <3> QED
      BY <1>3, <3>1 DEF Upward
  <2> QED
    BY <1>3, <2>1, <2>2
<1>4. T \in SUBSET Ids /\ Upward(T) /\ Parents(p) \subseteq T
  BY <1>3 DEF Over, Upward
<1> QED
  BY <1>2, <1>4 DEF Over

\* Above is this function.
LEMMA AboveIs ==
    ASSUME TypeOK
    PROVE  \A p \in Ids :
             Above[p] = IF posts[p].parent = None THEN {}
                        ELSE {posts[p].parent} \cup Above[posts[p].parent]
<1> DEFINE Entry(f, p) ==
             IF posts[p].parent = None THEN {} ELSE {posts[p].parent} \cup f[posts[p].parent]
<1>1. \E f : f = [p \in Ids |-> Entry(f, p)]
  <2>1. PICK f : f = [p \in Ids |-> Over(p)]
    OBVIOUS
  <2>2. ASSUME NEW p \in Ids PROVE Over(p) = Entry(f, p)
    <3>1. CASE posts[p].parent = None
      BY <3>1, OverRoot, Older
    <3>2. CASE posts[p].parent # None
      <4>1. /\ posts[p].parent \in Ids /\ Parents(p) = {posts[p].parent}
        BY <3>2, Older
      <4>2. Over(p) = {posts[p].parent} \cup Over(posts[p].parent)
        BY <4>1, OverReply
      <4> QED
        BY <2>1, <3>2, <4>1, <4>2
    <3> QED
      BY <3>1, <3>2
  <2> QED
    BY <2>1, <2>2
<1>2. Above = [p \in Ids |-> Entry(Above, p)]
  BY <1>1 DEF Above
<1> QED
  BY <1>2

\* A least post for which a claim fails is a reply to one for which it holds.
LEMMA LeastPost ==
    ASSUME TypeOK, NEW S \in SUBSET Ids, S # {}
    PROVE  \E m \in S : posts[m].parent # None => posts[m].parent \in Ids \ S
<1>1. S \in SUBSET Nat
  BY Rows
<1>2. PICK m \in S : \A n \in S : m <= n
  BY <1>1, LeastNat
<1>3. ASSUME posts[m].parent # None PROVE posts[m].parent \in Ids \ S
  <2>1. m \in Nat /\ posts[m].parent \in Ids /\ posts[m].parent < m
    BY <1>3, Older
  <2>2. posts[m].parent \in Nat /\ ~(m <= posts[m].parent)
    BY <2>1, Rows
  <2> QED
    BY <1>2, <2>1, <2>2
<1> QED
  BY <1>3

LEMMA AboveOlder ==
    ASSUME TypeOK
    PROVE  \A p \in Ids : \A q \in Above[p] : q \in Ids /\ q < p
<1> DEFINE Fine(p) == \A q \in Above[p] : q \in Ids /\ q < p
           S == {p \in Ids : ~Fine(p)}
<1> SUFFICES ASSUME S # {} PROVE FALSE
  OBVIOUS
<1> HIDE DEF Fine
<1>1. PICK m \in S : posts[m].parent # None => posts[m].parent \in Ids \ S
  BY LeastPost
<1>2. m \in Ids /\ ~Fine(m)
  OBVIOUS
<1>3. CASE posts[m].parent = None
  <2>1. Above[m] = {}
    BY <1>2, <1>3, AboveIs
  <2> QED
    BY <1>2, <2>1 DEF Fine
<1>4. CASE posts[m].parent # None
  <2> DEFINE q == posts[m].parent
  <2>1. q \in Ids /\ q < m /\ q \in Nat /\ m \in Nat
    BY <1>2, <1>4, Older
  <2>2. Above[m] = {q} \cup Above[q]
    BY <1>2, <1>4, AboveIs
  <2>3. Fine(q)
    BY <1>1, <1>4
  <2>4. \A x \in Above[q] : x \in Ids /\ x < q
    BY <2>3 DEF Fine
  <2> HIDE DEF q
  <2>5. \A x \in Above[q] : x \in Ids /\ x < m
    BY <2>1, <2>4, Rows
  <2>6. Fine(m)
    BY <2>1, <2>2, <2>5 DEF Fine
  <2> QED
    BY <1>2, <2>6
<1> QED
  BY <1>3, <1>4

\* The ancestors of get_thread are the post and what is above it.
LEMMA AncestorsAre ==
    ASSUME TypeOK, NEW p \in Ids, NEW u, Visible(p, u), ~IsRepost(p)
    PROVE  Ancestors(p, u) = {p} \cup Above[p]
<1> DEFINE Entry(f, q) ==
             {q} \cup IF posts[q].parent = None THEN {} ELSE f[posts[q].parent]
           up == CHOOSE f : f = [q \in Ids |-> Entry(f, q)]
<1>1. \E f : f = [q \in Ids |-> Entry(f, q)]
  <2>1. PICK f : f = [q \in Ids |-> {q} \cup Above[q]]
    OBVIOUS
  <2>2. ASSUME NEW q \in Ids PROVE {q} \cup Above[q] = Entry(f, q)
    BY <2>1, AboveIs, Older
  <2> QED
    BY <2>1, <2>2
<1>2. up = [q \in Ids |-> Entry(up, q)]
  BY <1>1
<1>3. Ancestors(p, u) = up[p]
  BY DEF Ancestors
<1> HIDE DEF up
<1>4. \A q \in Ids : up[q] = {q} \cup IF posts[q].parent = None THEN {} ELSE up[posts[q].parent]
  BY <1>2
<1> DEFINE S == {q \in Ids : up[q] # {q} \cup Above[q]}
<1> SUFFICES ASSUME S # {} PROVE FALSE
  BY <1>3
<1>5. PICK m \in S : posts[m].parent # None => posts[m].parent \in Ids \ S
  BY LeastPost
<1>6. m \in Ids /\ up[m] # {m} \cup Above[m]
  OBVIOUS
<1>7. posts[m].parent # None => up[posts[m].parent] = {posts[m].parent} \cup Above[posts[m].parent]
  BY <1>5
<1> QED
  BY <1>4, <1>6, <1>7, AboveIs

\* One of them is no reply: the root.
Tops(p) == {q \in {p} \cup Above[p] : posts[q].parent = None}

LEMMA TopsAre ==
    ASSUME TypeOK, NEW p \in Ids
    PROVE  Tops(p) = IF posts[p].parent = None THEN {p} ELSE Tops(posts[p].parent)
BY AboveIs DEF Tops

Top(p) == CHOOSE r : r \in Tops(p)

LEMMA RootIs ==
    ASSUME TypeOK
    PROVE  \A p \in Ids :
             Root[p] = IF posts[p].parent = None THEN p ELSE Root[posts[p].parent]
<1> DEFINE Entry(f, p) == IF posts[p].parent = None THEN p ELSE f[posts[p].parent]
<1>1. \E f : f = [p \in Ids |-> Entry(f, p)]
  <2>1. PICK f : f = [p \in Ids |-> Top(p)]
    OBVIOUS
  <2>2. ASSUME NEW p \in Ids PROVE Top(p) = Entry(f, p)
    <3>1. CASE posts[p].parent = None
      BY <3>1, TopsAre DEF Top
    <3>2. CASE posts[p].parent # None
      <4>1. posts[p].parent \in Ids /\ Tops(p) = Tops(posts[p].parent)
        BY <3>2, Older, TopsAre
      <4> QED
        BY <2>1, <3>2, <4>1 DEF Top
    <3> QED
      BY <3>1, <3>2
  <2> QED
    BY <2>1, <2>2
<1>2. Root = [p \in Ids |-> Entry(Root, p)]
  BY <1>1 DEF Root
<1> QED
  BY <1>2

LEMMA RootOnTop ==
    ASSUME TypeOK
    PROVE  \A p \in Ids : Tops(p) = {Root[p]} /\ Root[p] \in Ids /\ posts[Root[p]].parent = None
<1> DEFINE Fine(p) == Tops(p) = {Root[p]} /\ Root[p] \in Ids /\ posts[Root[p]].parent = None
           S == {p \in Ids : ~Fine(p)}
<1> SUFFICES ASSUME S # {} PROVE FALSE
  OBVIOUS
<1> HIDE DEF Fine
<1>1. PICK m \in S : posts[m].parent # None => posts[m].parent \in Ids \ S
  BY LeastPost
<1>2. m \in Ids /\ ~Fine(m)
  OBVIOUS
<1>3. posts[m].parent # None => Fine(posts[m].parent)
  BY <1>1
<1>4. Fine(m)
  BY <1>2, <1>3, TopsAre, RootIs DEF Fine
<1> QED
  BY <1>2, <1>4

-----------------------------------------------------------------------------
(* Paths from a root *)

\* A path starts at a root and goes from a post to a reply to it.
IsPath(s) ==
    /\ s \in Seq(Ids) /\ Len(s) \in Nat \ {0} /\ DOMAIN s = 1..Len(s)
    /\ posts[s[1]].parent = None
    /\ \A i \in 1..(Len(s) - 1) : posts[s[i + 1]].parent = s[i]

LEMMA PathElements ==
    ASSUME TypeOK, NEW s, IsPath(s)
    PROVE  /\ \A i \in 1..Len(s) : s[i] \in Ids /\ s[i] \in Nat
           /\ Last(s) = s[Len(s)] /\ Last(s) \in Ids
           /\ Len(s) \in Nat /\ 1 \in 1..Len(s) /\ Len(s) \in 1..Len(s)
<1>1. s \in Seq(Ids) /\ Len(s) \in Nat \ {0}
  BY DEF IsPath
<1>2. \A i \in 1..Len(s) : s[i] \in Ids
  BY <1>1, ElementOfSeq
<1>3. \A i \in Ids : i \in Nat
  BY Rows
<1>4. 1 \in 1..Len(s) /\ Len(s) \in 1..Len(s)
  BY <1>1
<1> QED
  BY <1>1, <1>2, <1>3, <1>4 DEF Last

\* Beginning and end of a path.
LEMMA PathOfOne ==
    ASSUME TypeOK, NEW r \in Ids, posts[r].parent = None
    PROVE  IsPath(<<r>>) /\ Len(<<r>>) = 1 /\ Last(<<r>>) = r /\ <<r>>[1] = r
BY DEF IsPath, Last

LEMMA PathGoesOn ==
    ASSUME TypeOK, NEW s, IsPath(s), NEW q \in Ids, posts[q].parent = Last(s)
    PROVE  /\ IsPath(Append(s, q))
           /\ Len(Append(s, q)) = Len(s) + 1 /\ Last(Append(s, q)) = q
           /\ Append(s, q)[1] = s[1]
<1> DEFINE t == Append(s, q)
<1>1. s \in Seq(Ids) /\ Len(s) \in Nat \ {0}
  BY DEF IsPath
<1>2. /\ t \in Seq(Ids) /\ Len(t) = Len(s) + 1
      /\ \A i \in 1..Len(s) : t[i] = s[i]
      /\ t[Len(s) + 1] = q
  BY <1>1, AppendProperties
<1>3. DOMAIN t = 1..Len(t)
  BY <1>2, LenProperties
<1> HIDE DEF t
<1>4. t[1] = s[1] /\ posts[t[1]].parent = None
  BY <1>1, <1>2 DEF IsPath
<1>5. ASSUME NEW i \in 1..(Len(t) - 1) PROVE posts[t[i + 1]].parent = t[i]
  <2>0. i \in 1..Len(s)
    BY <1>1, <1>2
  <2>1. i = Len(s) \/ (i \in 1..(Len(s) - 1) /\ i + 1 \in 1..Len(s))
    BY <1>1, <2>0
  <2>2. CASE i = Len(s)
    BY <1>2, <2>0, <2>2 DEF Last
  <2>3. CASE i \in 1..(Len(s) - 1) /\ i + 1 \in 1..Len(s)
    BY <1>2, <2>0, <2>3 DEF IsPath
  <2> QED
    BY <2>1, <2>2, <2>3
<1>6. IsPath(t) /\ Last(t) = q
  BY <1>1, <1>2, <1>3, <1>4, <1>5 DEF IsPath, Last
<1> QED
  BY <1>2, <1>4, <1>6 DEF t

\* The first n posts of a path.
LEMMA PathBegins ==
    ASSUME TypeOK, NEW s, IsPath(s), NEW n \in 1..Len(s)
    PROVE  \E t : /\ IsPath(t) /\ Len(t) = n /\ Last(t) = s[n]
                  /\ \A i \in 1..n : t[i] = s[i]
<1>1. s \in Seq(Ids) /\ Len(s) \in Nat /\ n \in Nat /\ n >= 1
  BY DEF IsPath
<1>2. \A i \in 1..n : s[i] \in Ids /\ i \in 1..Len(s)
  BY <1>1, PathElements
<1>3. PICK t : t = SubSeq(s, 1, n)
  OBVIOUS
<1>4. /\ t \in Seq(Ids) /\ Len(t) = n - 1 + 1
      /\ \A i \in 1..(n - 1 + 1) : t[i] = s[1 + i - 1]
  BY <1>1, <1>2, <1>3, SubSeqProperties
<1>5. Len(t) = n /\ \A i \in 1..n : t[i] = s[i]
  BY <1>1, <1>4
<1>6. DOMAIN t = 1..Len(t)
  BY <1>4, LenProperties
<1>7. Last(t) = s[n]
  BY <1>1, <1>5 DEF Last
<1>8. posts[t[1]].parent = None
  BY <1>1, <1>5 DEF IsPath
<1>9. ASSUME NEW i \in 1..(n - 1) PROVE posts[t[i + 1]].parent = t[i]
  <2>1. i \in 1..n /\ i + 1 \in 1..n /\ i \in 1..(Len(s) - 1)
    BY <1>1
  <2> QED
    BY <1>5, <2>1 DEF IsPath
<1>10. IsPath(t)
  BY <1>1, <1>4, <1>5, <1>6, <1>8, <1>9 DEF IsPath
<1> QED
  BY <1>5, <1>7, <1>10

\* A path of more than one post is a shorter one and a reply to its last post.
LEMMA PathEnds ==
    ASSUME TypeOK, NEW s, IsPath(s), Len(s) # 1
    PROVE  \E t : /\ IsPath(t) /\ Len(t) = Len(s) - 1
                  /\ posts[Last(s)].parent = Last(t) /\ s = Append(t, Last(s)) /\ s[1] = t[1]
<1>1. Len(s) \in Nat /\ s \in Seq(Ids) /\ Len(s) - 1 \in 1..Len(s) /\ Len(s) - 1 \in 1..(Len(s) - 1)
  BY DEF IsPath
<1>2. PICK t : /\ IsPath(t) /\ Len(t) = Len(s) - 1 /\ Last(t) = s[Len(s) - 1]
               /\ \A i \in 1..(Len(s) - 1) : t[i] = s[i]
  BY <1>1, PathBegins
<1>3. posts[s[(Len(s) - 1) + 1]].parent = s[Len(s) - 1]
  BY <1>1 DEF IsPath
<1>4. posts[Last(s)].parent = Last(t)
  BY <1>1, <1>2, <1>3, PathElements
<1>5. t \in Seq(Ids) /\ Last(s) \in Ids /\ Last(s) = s[Len(s)]
  BY <1>2, PathElements DEF IsPath
<1>6. PICK v : v = Append(t, Last(s))
  OBVIOUS
<1>7. /\ v \in Seq(Ids) /\ Len(v) = Len(t) + 1
      /\ \A i \in 1..Len(t) : v[i] = t[i]
      /\ v[Len(t) + 1] = Last(s)
  BY <1>5, <1>6, AppendProperties
<1>8. Len(v) = Len(s)
  BY <1>1, <1>2, <1>7
<1>9. ASSUME NEW i \in 1..Len(s) PROVE s[i] = v[i]
  <2>1. i = Len(s) \/ i \in 1..(Len(s) - 1)
    BY <1>1
  <2> QED
    BY <1>1, <1>2, <1>5, <1>7, <2>1
<1>10. s = v
  BY <1>1, <1>7, <1>8, <1>9, SeqEqual
<1>11. s[1] = t[1]
  BY <1>1, <1>2
<1> QED
  BY <1>2, <1>4, <1>6, <1>10, <1>11


LEMMA PathsShort ==
    ASSUME TypeOK
    PROVE  \A s : IsPath(s) => Len(s) <= Last(s)
<1> DEFINE Long(s) == IsPath(s) /\ ~(Len(s) <= Last(s))
           S == {n \in Nat : \E s : Long(s) /\ Len(s) = n}
<1>1. \A s : Long(s) => Len(s) \in S
  BY DEF IsPath
<1> SUFFICES ASSUME S # {} PROVE FALSE
  BY <1>1
<1>2. S \in SUBSET Nat
  OBVIOUS
<1> HIDE DEF S
<1>3. PICK n \in S : \A k \in S : n <= k
  BY <1>2, LeastNat
<1>4. PICK s : Long(s) /\ Len(s) = n
  BY <1>3 DEF S
<1>5. IsPath(s) /\ Len(s) \in Nat /\ Len(s) # 0 /\ Last(s) \in Ids /\ Last(s) \in Nat /\ Last(s) >= 1
  BY <1>4, PathElements, Older DEF IsPath
<1>6. Len(s) # 1
  BY <1>4, <1>5
<1>7. PICK t : IsPath(t) /\ Len(t) = Len(s) - 1 /\ posts[Last(s)].parent = Last(t)
  BY <1>5, <1>6, PathEnds
<1>8. Last(t) \in Nat /\ Last(t) \in Ids
  BY <1>7, PathElements, Rows
<1>9. Last(t) < Last(s)
  BY <1>5, <1>7, <1>8, Older, Rows
<1>10. Long(t)
  <2>1. ~(Len(s) <= Last(s))
    BY <1>4
  <2> QED
    BY <1>5, <1>7, <1>8, <1>9, <2>1
<1> HIDE DEF Long
<1>11. n <= Len(t)
  BY <1>1, <1>3, <1>10
<1> QED
  BY <1>4, <1>5, <1>7, <1>11

LEMMA PathTo ==
    ASSUME TypeOK
    PROVE  \A p \in Ids : \E s : IsPath(s) /\ Last(s) = p /\ s[1] = Root[p]
<1> DEFINE Fine(p) == \E s : IsPath(s) /\ Last(s) = p /\ s[1] = Root[p]
           S == {p \in Ids : ~Fine(p)}
<1> SUFFICES ASSUME S # {} PROVE FALSE
  OBVIOUS
<1> HIDE DEF Fine
<1>1. PICK m \in S : posts[m].parent # None => posts[m].parent \in Ids \ S
  BY LeastPost
<1>2. m \in Ids /\ ~Fine(m)
  OBVIOUS
<1>3. CASE posts[m].parent = None
  BY <1>2, <1>3, PathOfOne, RootIs DEF Fine
<1>4. CASE posts[m].parent # None
  <2>1. posts[m].parent \in Ids /\ Fine(posts[m].parent)
    BY <1>1, <1>4
  <2>2. PICK s : IsPath(s) /\ Last(s) = posts[m].parent /\ s[1] = Root[posts[m].parent]
    BY <2>1 DEF Fine
  <2>3. IsPath(Append(s, m)) /\ Last(Append(s, m)) = m /\ Append(s, m)[1] = s[1]
    BY <1>2, <2>2, PathGoesOn
  <2>4. Root[m] = s[1]
    BY <1>2, <1>4, <2>2, RootIs
  <2>5. Fine(m)
    BY <2>3, <2>4 DEF Fine
  <2> QED
    BY <1>2, <2>5
<1> QED
  BY <1>3, <1>4

LEMMA PathUnique ==
    ASSUME TypeOK
    PROVE  \A p \in Ids : \A s, t : IsPath(s) /\ IsPath(t) /\ Last(s) = p /\ Last(t) = p => s = t
<1> DEFINE Fine(p) == \A s, t : IsPath(s) /\ IsPath(t) /\ Last(s) = p /\ Last(t) = p => s = t
           S == {p \in Ids : ~Fine(p)}
<1> SUFFICES ASSUME S # {} PROVE FALSE
  OBVIOUS
<1> HIDE DEF Fine
<1>1. PICK m \in S : posts[m].parent # None => posts[m].parent \in Ids \ S
  BY LeastPost
<1>2. m \in Ids /\ ~Fine(m)
  OBVIOUS
<1>3. PICK s, t : IsPath(s) /\ IsPath(t) /\ Last(s) = m /\ Last(t) = m /\ s # t
  BY <1>2 DEF Fine
<1>4. /\ s \in Seq(Ids) /\ t \in Seq(Ids) /\ Len(s) \in Nat /\ Len(t) \in Nat
      /\ s[Len(s)] = m /\ t[Len(t)] = m
      /\ posts[s[1]].parent = None /\ posts[t[1]].parent = None
  BY <1>3 DEF IsPath, Last
<1>5. CASE posts[m].parent = None
  <2>1. ASSUME NEW v, IsPath(v), Last(v) = m PROVE Len(v) = 1
    <3>1. ASSUME Len(v) # 1 PROVE FALSE
      <4>1. PICK w : IsPath(w) /\ posts[Last(v)].parent = Last(w)
        BY <2>1, <3>1, PathEnds
      <4> QED
        BY <1>5, <2>1, <4>1, PathElements, Rows
    <3> QED
      BY <3>1
  <2>2. Len(s) = 1 /\ Len(t) = 1
    BY <1>3, <2>1
  <2>3. \A i \in 1..Len(s) : s[i] = t[i]
    BY <1>4, <2>2
  <2> QED
    BY <1>3, <1>4, <2>2, <2>3, SeqEqual
<1>6. CASE posts[m].parent # None
  <2>1. Len(s) # 1 /\ Len(t) # 1
    BY <1>4, <1>6
  <2>2. PICK v : IsPath(v) /\ posts[m].parent = Last(v) /\ s = Append(v, m)
    BY <1>3, <2>1, PathEnds
  <2>3. PICK w : IsPath(w) /\ posts[m].parent = Last(w) /\ t = Append(w, m)
    BY <1>3, <2>1, PathEnds
  <2>4. Fine(posts[m].parent)
    BY <1>1, <1>6
  <2>5. v = w
    BY <2>2, <2>3, <2>4 DEF Fine
  <2> QED
    BY <1>3, <2>2, <2>3, <2>5
<1> QED
  BY <1>5, <1>6

\* A path starts at the root of its last post.
LEMMA PathRoot ==
    ASSUME TypeOK, NEW s, IsPath(s)
    PROVE  s[1] = Root[Last(s)]
<1>1. Last(s) \in Ids
  BY PathElements
<1>2. PICK t : IsPath(t) /\ Last(t) = Last(s) /\ t[1] = Root[Last(s)]
  BY <1>1, PathTo
<1>3. s = t
  BY <1>1, <1>2, PathUnique
<1> QED
  BY <1>2, <1>3

LevelOf(r, n) == {s \in Seq(Ids) : IsPath(s) /\ s[1] = r /\ Len(s) = n}

LEMMA Levels ==
    ASSUME TypeOK, NEW r \in Ids, posts[r].parent = None
    PROVE  /\ LevelOf(r, 1) = {<<r>>}
           /\ \A n \in Nat : n # 0 /\ n # 1 =>
                LevelOf(r, n) =
                  UNION {{Append(path, q) : q \in {c \in Ids : posts[c].parent = Last(path)}} :
                           path \in LevelOf(r, n - 1)}
<1>1. LevelOf(r, 1) = {<<r>>}
  <2>1. <<r>> \in LevelOf(r, 1)
    BY PathOfOne DEF LevelOf, IsPath
  <2>2. ASSUME NEW s \in LevelOf(r, 1) PROVE s = <<r>>
    <3>1. s \in Seq(Ids) /\ <<r>> \in Seq(Ids) /\ Len(s) = 1 /\ Len(<<r>>) = 1 /\ s[1] = r
      BY DEF LevelOf
    <3>2. \A i \in 1..1 : s[i] = <<r>>[i]
      BY <3>1
    <3> QED
      BY <3>1, <3>2, SeqEqual
  <2> QED
    BY <2>1, <2>2
<1>2. ASSUME NEW n \in Nat, n # 0, n # 1, NEW s
      PROVE  s \in LevelOf(r, n) <=>
               \E path \in LevelOf(r, n - 1) :
                 \E q \in Ids : posts[q].parent = Last(path) /\ s = Append(path, q)
  <2>1. ASSUME s \in LevelOf(r, n)
        PROVE  \E path \in LevelOf(r, n - 1) :
                 \E q \in Ids : posts[q].parent = Last(path) /\ s = Append(path, q)
    <3>1. IsPath(s) /\ s[1] = r /\ Len(s) = n /\ Len(s) # 1
      BY <1>2, <2>1 DEF LevelOf
    <3>2. PICK t : /\ IsPath(t) /\ Len(t) = n - 1 /\ posts[Last(s)].parent = Last(t)
                   /\ s = Append(t, Last(s)) /\ t[1] = r
      BY <3>1, PathEnds
    <3>3. t \in LevelOf(r, n - 1) /\ Last(s) \in Ids
      BY <3>1, <3>2, PathElements DEF LevelOf, IsPath
    <3> QED
      BY <3>2, <3>3
  <2>2. ASSUME NEW path \in LevelOf(r, n - 1), NEW q \in Ids,
               posts[q].parent = Last(path), s = Append(path, q)
        PROVE  s \in LevelOf(r, n)
    <3>1. IsPath(path) /\ path[1] = r /\ Len(path) = n - 1
      BY DEF LevelOf
    <3>2. IsPath(s) /\ Len(s) = Len(path) + 1 /\ s[1] = r
      BY <2>2, <3>1, PathGoesOn
    <3>3. Len(s) = n
      BY <3>1, <3>2
    <3> QED
      BY <3>2, <3>3 DEF LevelOf, IsPath
  <2> QED
    BY <2>1, <2>2
<1>3. ASSUME NEW n \in Nat, n # 0, n # 1
      PROVE  LevelOf(r, n) =
               UNION {{Append(path, q) : q \in {c \in Ids : posts[c].parent = Last(path)}} :
                        path \in LevelOf(r, n - 1)}
  BY <1>2, <1>3
<1> QED
  BY <1>1, <1>3

LEMMA PathsAre ==
    ASSUME TypeOK, NEW r \in Ids, posts[r].parent = None
    PROVE  \A s : s \in Paths({r}) <=> IsPath(s) /\ s[1] = r
<1> DEFINE N == Len(posts)
           Entry(f, n) ==
             IF n = 1 THEN {<<q>> : q \in {r}}
             ELSE UNION {{Append(path, q) : q \in {c \in Ids : posts[c].parent = Last(path)}} :
                           path \in f[n - 1]}
           level == CHOOSE f : f = [n \in 1..N |-> Entry(f, n)]
<1>1. N \in Nat
  BY Rows
<1>2. Paths({r}) = UNION {level[n] : n \in 1..N}
  BY DEF Paths
<1>3. \E f : f = [n \in 1..N |-> Entry(f, n)]
  <2>1. PICK f : f = [n \in 1..N |-> LevelOf(r, n)]
    OBVIOUS
  <2>2. ASSUME NEW n \in 1..N PROVE LevelOf(r, n) = Entry(f, n)
    <3>1. CASE n = 1
      BY <3>1, Levels
    <3>2. CASE n # 1
      <4>1. n \in Nat /\ n # 0 /\ n - 1 \in 1..N
        BY <1>1, <3>2
      <4>2. f[n - 1] = LevelOf(r, n - 1)
        BY <2>1, <4>1
      <4> QED
        BY <3>2, <4>1, <4>2, Levels
    <3> QED
      BY <3>1, <3>2
  <2> HIDE DEF Entry
  <2>3. f = [n \in 1..N |-> Entry(f, n)]
    BY <2>1, <2>2
  <2> QED
    BY <2>3
<1>4. level = [n \in 1..N |-> Entry(level, n)]
  BY <1>3
<1> HIDE DEF level, N, Entry
<1>5. \A n \in 1..N : level[n] = Entry(level, n)
  BY <1>4
<1>6. \A n \in 1..N : level[n] = LevelOf(r, n)
  <2> DEFINE S == {n \in 1..N : level[n] # LevelOf(r, n)}
  <2> SUFFICES ASSUME S # {} PROVE FALSE
    OBVIOUS
  <2>1. S \in SUBSET Nat
    BY <1>1
  <2>2. PICK m \in S : \A n \in S : m <= n
    BY <2>1, LeastNat
  <2>3. m \in 1..N /\ level[m] # LevelOf(r, m) /\ level[m] = Entry(level, m)
    BY <1>5
  <2>4. m # 1
    BY <2>3, Levels DEF Entry
  <2>5. m \in Nat /\ m # 0 /\ m - 1 \in 1..N /\ ~(m <= m - 1)
    BY <1>1, <2>3, <2>4
  <2>6. level[m - 1] = LevelOf(r, m - 1)
    BY <2>2, <2>5
  <2>7. level[m] = LevelOf(r, m)
    BY <2>3, <2>4, <2>5, <2>6, Levels DEF Entry
  <2> QED
    BY <2>3, <2>7
<1>7. ASSUME NEW s, IsPath(s) PROVE Len(s) \in 1..N
  <2>1. Len(s) \in Nat /\ Len(s) # 0 /\ Last(s) \in Ids /\ Len(s) <= Last(s)
    BY <1>7, PathElements, PathsShort DEF IsPath
  <2>2. Last(s) \in 1..N
    BY <2>1, Rows DEF N
  <2> QED
    BY <1>1, <2>1, <2>2
<1>8. \A s : s \in Paths({r}) <=> \E n \in 1..N : s \in LevelOf(r, n)
  BY <1>2, <1>6
<1>9. \A s : IsPath(s) => s \in Seq(Ids)
  BY DEF IsPath
<1> QED
  BY <1>7, <1>8, <1>9 DEF LevelOf


-----------------------------------------------------------------------------
(* ORDER BY *)

\* A finite set with a strict total order can be enumerated in that order.
LEMMA Enumeration ==
    ASSUME NEW S, IsFiniteSet(S), NEW R,
           \A x \in S : <<x, x>> \notin R,
           \A x, y, z \in S : <<x, y>> \in R /\ <<y, z>> \in R => <<x, z>> \in R,
           \A x, y \in S : x = y \/ <<x, y>> \in R \/ <<y, x>> \in R
    PROVE  \E f \in [1..Cardinality(S) -> S] :
             \A i, k \in 1..Cardinality(S) : i < k => <<f[i], f[k]>> \in R
<1> DEFINE n == Cardinality(S)
           UpTo(x) == {y \in S : y = x \/ <<y, x>> \in R}
<1>1. n \in Nat
  BY FS_CardinalityType
<1>2. ASSUME NEW x \in S
      PROVE  IsFiniteSet(UpTo(x)) /\ Cardinality(UpTo(x)) \in 1..n
  <2>1. UpTo(x) \in SUBSET S /\ UpTo(x) # {}
    OBVIOUS
  <2> HIDE DEF UpTo
  <2>2. IsFiniteSet(UpTo(x)) /\ Cardinality(UpTo(x)) <= Cardinality(S)
    BY <2>1, FS_Subset
  <2>3. Cardinality(UpTo(x)) \in Nat /\ Cardinality(UpTo(x)) # 0
    BY <2>1, <2>2, FS_CardinalityType, FS_EmptySet
  <2> QED
    BY <1>1, <2>2, <2>3
<1>3. ASSUME NEW x \in S, NEW y \in S, <<x, y>> \in R
      PROVE  Cardinality(UpTo(x)) < Cardinality(UpTo(y))
  <2>1. UpTo(x) \in SUBSET UpTo(y) /\ y \in UpTo(y) /\ y \notin UpTo(x)
    BY <1>3
  <2>2. IsFiniteSet(UpTo(y)) /\ Cardinality(UpTo(x)) \in 1..n /\ Cardinality(UpTo(y)) \in 1..n
    BY <1>2
  <2> HIDE DEF UpTo
  <2>3. /\ Cardinality(UpTo(x)) <= Cardinality(UpTo(y))
        /\ Cardinality(UpTo(y)) = Cardinality(UpTo(x)) => UpTo(y) = UpTo(x)
    BY <2>1, <2>2, FS_Subset
  <2>4. Cardinality(UpTo(y)) # Cardinality(UpTo(x))
    BY <2>1, <2>3
  <2> QED
    BY <1>1, <2>2, <2>3, <2>4
<1> HIDE DEF UpTo
<1>4. PICK rank : rank = [x \in S |-> Cardinality(UpTo(x))]
  OBVIOUS
<1>5. /\ rank \in [S -> 1..n]
      /\ \A x, y \in S : <<x, y>> \in R => rank[x] < rank[y]
  BY <1>2, <1>3, <1>4
<1>6. ASSUME NEW x \in S, NEW y \in S, rank[x] = rank[y] PROVE x = y
  <2>1. rank[x] \in Nat /\ ~(rank[x] < rank[y]) /\ ~(rank[y] < rank[x])
    BY <1>1, <1>5, <1>6
  <2> QED
    BY <1>5, <2>1
<1>7. rank \in Injection(S, 1..n)
  BY <1>5, <1>6 DEF Injection, IsInjective
<1>8. IsFiniteSet(1..n) /\ Cardinality(1..n) = n
  BY <1>1, FS_Interval
<1>9. rank \in Surjection(S, 1..n)
  BY <1>7, <1>8, FS_Injection
<1>10. \A i \in 1..n : \E x \in S : rank[x] = i
  BY <1>9 DEF Surjection
<1>11. PICK f : f = [i \in 1..n |-> CHOOSE x \in S : rank[x] = i]
  OBVIOUS
<1>12. f \in [1..n -> S] /\ \A i \in 1..n : f[i] \in S /\ rank[f[i]] = i
  BY <1>10, <1>11
<1>13. ASSUME NEW i \in 1..n, NEW k \in 1..n, i < k PROVE <<f[i], f[k]>> \in R
  <2>1. f[i] \in S /\ f[k] \in S /\ rank[f[i]] = i /\ rank[f[k]] = k
    BY <1>12
  <2>2. ~(k < i) /\ i # k
    BY <1>1, <1>13
  <2>3. f[i] # f[k]
    BY <2>1, <2>2
  <2>4. <<f[k], f[i]>> \notin R
    BY <1>5, <2>1, <2>2
  <2>5. f[i] = f[k] \/ <<f[i], f[k]>> \in R \/ <<f[k], f[i]>> \in R
    BY <2>1
  <2> QED
    BY <2>3, <2>4, <2>5
<1> QED
  BY <1>12, <1>13

LEMMA PrecedesStrict ==
    ASSUME TypeOK, NEW s, IsPath(s)
    PROVE  ~Precedes(s, s)
<1>1. Len(s) \in Nat /\ \A i \in 1..Len(s) : s[i] \in Nat
  BY PathElements
<1> QED
  BY <1>1 DEF Precedes

LEMMA PrecedesTransitive ==
    ASSUME TypeOK, NEW s, IsPath(s), NEW t, IsPath(t), NEW v, IsPath(v),
           Precedes(s, t), Precedes(t, v)
    PROVE  Precedes(s, v)
<1>1. /\ Len(s) \in Nat /\ \A i \in 1..Len(s) : s[i] \in Nat
      /\ Len(t) \in Nat /\ \A i \in 1..Len(t) : t[i] \in Nat
      /\ Len(v) \in Nat /\ \A i \in 1..Len(v) : v[i] \in Nat
  BY PathElements
<1>2. PICK i \in 1..Len(t) :
        /\ \A k \in 1..(i - 1) : k <= Len(s) /\ s[k] = t[k]
        /\ i = Len(s) + 1 \/ (i <= Len(s) /\ s[i] < t[i])
  BY DEF Precedes
<1>3. PICK j \in 1..Len(v) :
        /\ \A k \in 1..(j - 1) : k <= Len(t) /\ t[k] = v[k]
        /\ j = Len(t) + 1 \/ (j <= Len(t) /\ t[j] < v[j])
  BY DEF Precedes
<1>4. CASE i < j
  <2>1. i \in 1..Len(v) /\ i \in 1..(j - 1)
    BY <1>1, <1>4
  <2>2. \A k \in 1..(i - 1) : k <= Len(s) /\ s[k] = v[k]
    <3>1. \A k \in 1..(i - 1) : k \in 1..(j - 1)
      BY <1>1, <1>4
    <3> QED
      BY <1>2, <1>3, <3>1
  <2>3. t[i] = v[i]
    BY <1>3, <2>1
  <2> QED
    BY <1>2, <2>1, <2>2, <2>3 DEF Precedes
<1>5. CASE i = j
  <2>1. t[j] < v[j] /\ j \in 1..Len(t)
    BY <1>1, <1>3, <1>5
  <2>2. \A k \in 1..(j - 1) : k <= Len(s) /\ s[k] = v[k]
    BY <1>2, <1>3, <1>5
  <2>3. j = Len(s) + 1 \/ (j <= Len(s) /\ s[j] < v[j])
    <3>1. CASE j = Len(s) + 1
      BY <3>1
    <3>2. CASE j <= Len(s) /\ s[j] < t[j]
      <4>1. s[j] \in Nat /\ t[j] \in Nat /\ v[j] \in Nat
        BY <1>1, <2>1, <3>2
      <4> QED
        BY <2>1, <3>2, <4>1
    <3> QED
      BY <1>2, <1>5, <3>1, <3>2
  <2> QED
    BY <2>2, <2>3 DEF Precedes
<1>6. CASE j < i
  <2>1. j \in 1..(i - 1) /\ j \in 1..Len(t)
    BY <1>1, <1>6
  <2>2. j <= Len(s) /\ s[j] = t[j] /\ t[j] < v[j]
    <3>1. j # Len(t) + 1
      BY <1>1, <2>1
    <3> QED
      BY <1>2, <1>3, <2>1, <3>1
  <2>3. \A k \in 1..(j - 1) : k <= Len(s) /\ s[k] = v[k]
    <3>1. \A k \in 1..(j - 1) : k \in 1..(i - 1)
      BY <1>1, <1>6
    <3> QED
      BY <1>2, <1>3, <3>1
  <2> QED
    BY <2>2, <2>3 DEF Precedes
<1> QED
  BY <1>1, <1>4, <1>5, <1>6

\* A path comes before its continuations.
LEMMA PrecedesLonger ==
    ASSUME NEW s, NEW t, Len(s) \in Nat, Len(t) \in Nat, Len(s) < Len(t),
           \A k \in 1..Len(s) : s[k] = t[k]
    PROVE  Precedes(s, t)
<1>1. Len(s) + 1 \in 1..Len(t)
  OBVIOUS
<1>2. \A k \in 1..(Len(s) + 1 - 1) : k <= Len(s) /\ s[k] = t[k]
  OBVIOUS
<1> QED
  BY <1>1, <1>2 DEF Precedes

LEMMA PrecedesTotal ==
    ASSUME TypeOK, NEW s, IsPath(s), NEW t, IsPath(t)
    PROVE  s = t \/ Precedes(s, t) \/ Precedes(t, s)
<1>1. /\ Len(s) \in Nat /\ \A i \in 1..Len(s) : s[i] \in Nat
      /\ Len(t) \in Nat /\ \A i \in 1..Len(t) : t[i] \in Nat
      /\ s \in Seq(Ids) /\ t \in Seq(Ids)
  BY PathElements DEF IsPath
<1> DEFINE D == {k \in Nat : k \in 1..Len(s) /\ k \in 1..Len(t) /\ s[k] # t[k]}
<1>2. CASE D = {}
  <2>1. \A k \in 1..Len(s) : k \in 1..Len(t) => s[k] = t[k]
    BY <1>1, <1>2
  <2>2. CASE Len(s) = Len(t)
    BY <1>1, <2>1, <2>2, SeqEqual
  <2>3. CASE Len(s) < Len(t)
    <3>1. \A k \in 1..Len(s) : s[k] = t[k]
      BY <1>1, <2>1, <2>3
    <3> QED
      BY <1>1, <2>3, <3>1, PrecedesLonger
  <2>4. CASE Len(t) < Len(s)
    <3>1. \A k \in 1..Len(t) : t[k] = s[k]
      BY <1>1, <2>1, <2>4
    <3> QED
      BY <1>1, <2>4, <3>1, PrecedesLonger
  <2> QED
    BY <1>1, <2>2, <2>3, <2>4
<1>3. CASE D # {}
  <2>1. D \in SUBSET Nat
    OBVIOUS
  <2>2. PICK m \in D : \A k \in D : m <= k
    BY <1>3, <2>1, LeastNat
  <2>3. m \in 1..Len(s) /\ m \in 1..Len(t) /\ s[m] # t[m]
    OBVIOUS
  <2>4. ASSUME NEW k \in 1..(m - 1) PROVE k <= Len(s) /\ k <= Len(t) /\ s[k] = t[k]
    <3>1. k \in Nat /\ k \in 1..Len(s) /\ k \in 1..Len(t) /\ ~(m <= k)
      BY <1>1, <2>3
    <3>2. k \notin D
      BY <2>2, <3>1
    <3> QED
      BY <3>1, <3>2
  <2> HIDE DEF D
  <2>5. s[m] \in Nat /\ t[m] \in Nat /\ m <= Len(s) /\ m <= Len(t)
    BY <1>1, <2>3
  <2>6. CASE s[m] < t[m]
    BY <2>3, <2>4, <2>5, <2>6 DEF Precedes
  <2>7. CASE t[m] < s[m]
    BY <2>3, <2>4, <2>5, <2>7 DEF Precedes
  <2> QED
    BY <2>3, <2>5, <2>6, <2>7
<1> QED
  BY <1>2, <1>3

\* So a finite set of paths is sorted: each of them once, in order.
LEMMA SortedPaths ==
    ASSUME TypeOK, NEW S, IsFiniteSet(S), \A s \in S : IsPath(s)
    PROVE  /\ Cardinality(S) \in Nat
           /\ Sorted(S) \in Bijection(1..Cardinality(S), S)
           /\ \A i, k \in 1..Cardinality(S) : i < k => Precedes(Sorted(S)[i], Sorted(S)[k])
<1> DEFINE n == Cardinality(S)
<1>1. n \in Nat
  BY FS_CardinalityType
<1>2. \E f \in [1..n -> S] : \A i, k \in DOMAIN f : i < k => Precedes(f[i], f[k])
  <2>1. PICK R : R = {x \in S \X S : Precedes(x[1], x[2])}
    OBVIOUS
  <2>2. \A x, y \in S : <<x, y>> \in R <=> Precedes(x, y)
    BY <2>1
  <2>3. \A x \in S : <<x, x>> \notin R
    BY <2>2, PrecedesStrict
  <2>4. \A x, y, z \in S : <<x, y>> \in R /\ <<y, z>> \in R => <<x, z>> \in R
    BY <2>2, PrecedesTransitive
  <2>5. \A x, y \in S : x = y \/ <<x, y>> \in R \/ <<y, x>> \in R
    BY <2>2, PrecedesTotal
  <2>6. PICK f \in [1..n -> S] : \A i, k \in 1..n : i < k => <<f[i], f[k]>> \in R
    BY <2>3, <2>4, <2>5, Enumeration
  <2>7. DOMAIN f = 1..n /\ \A i \in 1..n : f[i] \in S
    OBVIOUS
  <2>8. \A i, k \in 1..n : i < k => Precedes(f[i], f[k])
    BY <2>2, <2>6, <2>7
  <2> QED
    BY <2>7, <2>8
<1>3. PICK f : f = Sorted(S)
  OBVIOUS
<1>4. f \in [1..n -> S] /\ \A i, k \in DOMAIN f : i < k => Precedes(f[i], f[k])
  BY <1>2, <1>3 DEF Sorted
<1>5. ASSUME NEW i \in 1..n, NEW k \in 1..n, f[i] = f[k] PROVE i = k
  <2>1. f[i] \in S /\ IsPath(f[i]) /\ DOMAIN f = 1..n
    BY <1>4
  <2>2. ~Precedes(f[i], f[i])
    BY <2>1, PrecedesStrict
  <2>3. ~(i < k) /\ ~(k < i)
    BY <1>4, <1>5, <2>1, <2>2
  <2> QED
    BY <1>1, <2>3
<1>6. f \in Injection(1..n, S)
  BY <1>4, <1>5 DEF Injection, IsInjective
<1>7. IsFiniteSet(1..n) /\ Cardinality(1..n) = n
  BY <1>1, FS_Interval
<1>8. f \in Surjection(1..n, S)
  BY <1>6, <1>7, FS_Injection
<1> QED
  BY <1>1, <1>3, <1>4, <1>6, <1>8 DEF Bijection


-----------------------------------------------------------------------------
(* Threads *)

\* The path to a post goes through what is above the post.
LEMMA AboveOnPath ==
    ASSUME TypeOK
    PROVE  \A p \in Ids : \A a, b :
             IsPath(a) /\ IsPath(b) /\ Last(b) = p /\ Last(a) \in Above[p] =>
               Len(a) < Len(b) /\ \A k \in 1..Len(a) : a[k] = b[k]
<1> DEFINE Begins(a, b) == Len(a) < Len(b) /\ \A k \in 1..Len(a) : a[k] = b[k]
           Fine(p) == \A a, b : IsPath(a) /\ IsPath(b) /\ Last(b) = p /\ Last(a) \in Above[p] =>
                                  Begins(a, b)
           S == {p \in Ids : ~Fine(p)}
<1> SUFFICES ASSUME S # {} PROVE FALSE
  OBVIOUS
<1> HIDE DEF Fine
<1>1. PICK m \in S : posts[m].parent # None => posts[m].parent \in Ids \ S
  BY LeastPost
<1>2. m \in Ids /\ ~Fine(m)
  OBVIOUS
<1>3. PICK a, b : IsPath(a) /\ IsPath(b) /\ Last(b) = m /\ Last(a) \in Above[m] /\ ~Begins(a, b)
  BY <1>2 DEF Fine
<1>4. posts[m].parent # None /\ Last(a) \in {posts[m].parent} \cup Above[posts[m].parent]
  BY <1>2, <1>3, AboveIs
<1>5. /\ Len(a) \in Nat /\ Len(b) \in Nat /\ Len(b) # 0
      /\ posts[b[1]].parent = None /\ b[Len(b)] = m
  BY <1>3 DEF IsPath, Last
<1>6. Len(b) # 1
  BY <1>4, <1>5
<1>7. PICK t : IsPath(t) /\ Len(t) = Len(b) - 1 /\ posts[m].parent = Last(t) /\ b = Append(t, m)
  BY <1>3, <1>6, PathEnds
<1>8. Len(t) < Len(b) /\ Len(t) \in Nat /\ \A k \in 1..Len(t) : t[k] = b[k]
  <2>1. t \in Seq(Ids)
    BY <1>7 DEF IsPath
  <2> QED
    BY <1>2, <1>5, <1>7, <2>1, AppendProperties
<1>9. CASE Last(a) = posts[m].parent
  <2>1. a = t
    BY <1>1, <1>3, <1>4, <1>7, <1>9, PathUnique
  <2> QED
    BY <1>3, <1>8, <2>1
<1>10. CASE Last(a) \in Above[posts[m].parent]
  <2>1. Fine(posts[m].parent)
    BY <1>1, <1>4
  <2>2. Begins(a, t)
    BY <1>3, <1>7, <1>10, <2>1 DEF Fine
  <2> QED
    BY <1>3, <1>5, <1>8, <2>2
<1> QED
  BY <1>4, <1>9, <1>10

\* Nobody can reply to a repost: a conversation is one, or has none.
LEMMA NoReposts ==
    ASSUME TypeOK, NEW p \in Ids, ~IsRepost(p), NEW q \in Ids, Root[q] = Root[p]
    PROVE  ~IsRepost(q)
<1>1. CASE posts[q].parent # None
  BY <1>1, Older
<1>2. CASE posts[q].parent = None
  <2>1. q = Root[p]
    BY <1>2, RootIs
  <2>2. PICK s : IsPath(s) /\ Last(s) = p /\ s[1] = q
    BY <2>1, PathTo
  <2>3. CASE Len(s) = 1
    BY <2>2, <2>3 DEF Last
  <2>4. CASE Len(s) # 1
    <3>1. Len(s) \in Nat /\ Len(s) # 0
      BY <2>2 DEF IsPath
    <3>2. 1 \in 1..(Len(s) - 1) /\ 1 + 1 \in 1..Len(s)
      <4>1. PICK n : n = Len(s)
        OBVIOUS
      <4>2. n \in Nat /\ n # 0 /\ n # 1
        BY <2>4, <3>1, <4>1
      <4>3. n >= 2
        BY <4>2
      <4>4. 1 \in 1..(n - 1) /\ 1 + 1 \in 1..n
        BY <4>2, <4>3
      <4> QED
        BY <4>1, <4>4
    <3>3. posts[s[1 + 1]].parent = q /\ s[1 + 1] \in Ids
      BY <2>2, <3>2, PathElements DEF IsPath
    <3>4. q # None
      BY Rows
    <3> QED
      BY <3>3, <3>4, Older
  <2> QED
    BY <2>3, <2>4
<1> QED
  BY <1>1, <1>2

\* The rows of get_thread, and the conversation of p as u may read it.
Found(p, u) == {s \in Paths({Root[p]}) : Visible(Last(s), u)}
Seen(p, u)  == {q \in Ids : Visible(q, u) /\ ~IsRepost(q) /\ Root[q] = Root[p]}

LEMMA FoundSeen ==
    ASSUME TypeOK, NEW p \in Ids, ~IsRepost(p), NEW u
    PROVE  /\ \A s \in Found(p, u) : IsPath(s) /\ Last(s) \in Seen(p, u)
           /\ \A q \in Seen(p, u) : \E s \in Found(p, u) : Last(s) = q
           /\ \A s, t \in Found(p, u) : Last(s) = Last(t) => s = t
           /\ IsFiniteSet(Found(p, u)) /\ Cardinality(Found(p, u)) = Cardinality(Seen(p, u))
<1>1. Root[p] \in Ids /\ posts[Root[p]].parent = None
  BY RootOnTop
<1>2. \A s : s \in Found(p, u) <=> IsPath(s) /\ s[1] = Root[p] /\ Visible(Last(s), u)
  BY <1>1, PathsAre DEF Found
<1>3. \A s \in Found(p, u) : IsPath(s) /\ Last(s) \in Seen(p, u)
  <2> SUFFICES ASSUME NEW s \in Found(p, u) PROVE IsPath(s) /\ Last(s) \in Seen(p, u)
    OBVIOUS
  <2>1. IsPath(s) /\ s[1] = Root[p] /\ Visible(Last(s), u)
    BY <1>2
  <2>2. Last(s) \in Ids /\ Root[Last(s)] = Root[p]
    BY <2>1, PathElements, PathRoot
  <2>3. ~IsRepost(Last(s))
    BY <2>2, NoReposts
  <2> QED
    BY <2>1, <2>2, <2>3 DEF Seen
<1>4. \A q \in Seen(p, u) : \E s \in Found(p, u) : Last(s) = q
  <2> SUFFICES ASSUME NEW q \in Seen(p, u) PROVE \E s \in Found(p, u) : Last(s) = q
    OBVIOUS
  <2>1. q \in Ids /\ Root[q] = Root[p] /\ Visible(q, u)
    BY DEF Seen
  <2>2. PICK s : IsPath(s) /\ Last(s) = q /\ s[1] = Root[q]
    BY <2>1, PathTo
  <2> QED
    BY <1>2, <2>1, <2>2
<1>5. \A s, t \in Found(p, u) : Last(s) = Last(t) => s = t
  BY <1>3, PathUnique DEF Seen
<1>6. IsFiniteSet(Seen(p, u))
  <2>1. Len(posts) \in Nat /\ Ids = 1..Len(posts) /\ Seen(p, u) \in SUBSET Ids
    BY Rows DEF Seen
  <2>2. IsFiniteSet(Ids)
    BY <2>1, FS_Interval
  <2> QED
    BY <2>1, <2>2, FS_Subset
<1>7. PICK f : f = [s \in Found(p, u) |-> Last(s)]
  OBVIOUS
<1>8. f \in Injection(Found(p, u), Seen(p, u)) /\ f \in Surjection(Found(p, u), Seen(p, u))
  BY <1>3, <1>4, <1>5, <1>7 DEF Injection, IsInjective, Surjection
<1>9. IsFiniteSet(Found(p, u)) /\ Cardinality(Found(p, u)) = Cardinality(Seen(p, u))
  BY <1>6, <1>8, FS_Injection
<1> QED
  BY <1>3, <1>4, <1>5, <1>9

\* get_thread returns the conversation, each post once, parents first.
LEMMA ThreadIs ==
    ASSUME TypeOK, NEW p \in Ids, ~IsRepost(p), NEW u, Visible(p, u)
    PROVE  /\ Range(Thread(p, u)) = Seen(p, u)
           /\ Len(Thread(p, u)) = Cardinality(Seen(p, u))
           /\ Len(Thread(p, u)) \in Nat /\ DOMAIN Thread(p, u) = 1..Len(Thread(p, u))
           /\ \A i, k \in DOMAIN Thread(p, u) : Thread(p, u)[i] = Thread(p, u)[k] => i = k
           /\ \A i, k \in DOMAIN Thread(p, u) :
                Thread(p, u)[i] \in Above[Thread(p, u)[k]] => i < k
<1> DEFINE n == Cardinality(Found(p, u))
<1>1. {q \in Ancestors(p, u) : posts[q].parent = None} = {Root[p]}
  BY AncestorsAre, RootOnTop DEF Tops
<1>2. PICK paths : paths = Sorted(Found(p, u))
  OBVIOUS
<1>3. Thread(p, u) = [i \in DOMAIN paths |-> Last(paths[i])]
  BY <1>1, <1>2 DEF Thread, Found
<1>4. /\ n \in Nat /\ paths \in Bijection(1..n, Found(p, u))
      /\ \A i, k \in 1..n : i < k => Precedes(paths[i], paths[k])
  BY <1>2, FoundSeen, SortedPaths
<1>5. /\ DOMAIN paths = 1..n
      /\ \A i \in 1..n : paths[i] \in Found(p, u) /\ IsPath(paths[i]) /\ Last(paths[i]) \in Seen(p, u)
      /\ \A i, k \in 1..n : paths[i] = paths[k] => i = k
      /\ \A s \in Found(p, u) : \E i \in 1..n : paths[i] = s
  BY <1>4, FoundSeen DEF Bijection, Injection, IsInjective, Surjection
<1>6. PICK thread : thread = Thread(p, u)
  OBVIOUS
<1>7. thread = [i \in 1..n |-> Last(paths[i])]
  BY <1>3, <1>5, <1>6
<1>8. thread \in Seq(Seen(p, u)) /\ DOMAIN thread = 1..n
  <2>1. thread \in [1..n -> Seen(p, u)]
    BY <1>5, <1>7
  <2> QED
    BY <1>4, <2>1, SeqDef
<1>9. Len(thread) = n
  <2>1. Len(thread) \in Nat /\ DOMAIN thread = 1..Len(thread)
    BY <1>8, LenProperties
  <2> QED
    BY <1>4, <1>8, <2>1
<1>10. Range(thread) = Seen(p, u)
  <2>1. \A q \in Seen(p, u) : \E i \in 1..n : thread[i] = q
    BY <1>5, <1>7, FoundSeen
  <2>2. \A i \in 1..n : thread[i] \in Seen(p, u)
    BY <1>5, <1>7
  <2> QED
    BY <1>8, <2>1, <2>2 DEF Range
<1>11. \A i, k \in 1..n : thread[i] = thread[k] => i = k
  BY <1>5, <1>7, FoundSeen
<1>12. ASSUME NEW i \in 1..n, NEW k \in 1..n, thread[i] \in Above[thread[k]] PROVE i < k
  <2>1. PICK a, b : a = paths[i] /\ b = paths[k]
    OBVIOUS
  <2>2. IsPath(a) /\ IsPath(b) /\ Last(b) \in Ids /\ Last(a) \in Above[Last(b)]
    BY <1>5, <1>7, <1>12, <2>1, PathElements
  <2>3. Len(a) \in Nat /\ Len(b) \in Nat /\ Len(a) < Len(b) /\ \A j \in 1..Len(a) : a[j] = b[j]
    BY <2>2, AboveOnPath, PathElements
  <2>4. Precedes(a, b)
    BY <2>3, PrecedesLonger
  <2>5. ~Precedes(b, a)
    BY <2>2, <2>4, PrecedesStrict, PrecedesTransitive
  <2>6. ~(k < i)
    BY <1>4, <2>1, <2>5
  <2>7. i # k
    BY <2>1, <2>3
  <2> QED
    BY <1>4, <2>6, <2>7
<1> QED
  BY <1>4, <1>6, <1>8, <1>9, <1>10, <1>11, <1>12, FoundSeen

LEMMA ThreadsComplete ==
    ASSUME TypeOK
    PROVE  ThreadComplete
<1> SUFFICES ASSUME NEW u \in Local \cup {None}, NEW p \in Ids, Visible(p, u), ~IsRepost(p)
             PROVE
               LET thread == Thread(p, u)
                   seen   == {q \in Ids : Visible(q, u) /\ ~IsRepost(q) /\ Root[q] = Root[p]}
               IN  /\ Range(thread) = seen
                   /\ Len(thread) = Cardinality(seen)
                   /\ \A i, k \in DOMAIN thread : thread[i] \in Above[thread[k]] => i < k
                   /\ \A q \in seen :
                       /\ q \in Above[p] => q \in Context(p, u).ancestors
                       /\ p \in Above[q] => q \in Context(p, u).descendants
  BY DEF ThreadComplete
<1>1. PICK thread : thread = Thread(p, u)
  OBVIOUS
<1>2. /\ Range(thread) = Seen(p, u)
      /\ Len(thread) = Cardinality(Seen(p, u))
      /\ Len(thread) \in Nat /\ DOMAIN thread = 1..Len(thread)
      /\ \A i, k \in DOMAIN thread : thread[i] \in Above[thread[k]] => i < k
  BY <1>1, ThreadIs
<1>3. \A q \in Seen(p, u) : \E k \in 1..Len(thread) : thread[k] = q
  BY <1>2 DEF Range
<1>4. p \in Seen(p, u)
  BY DEF Seen
<1>5. PICK i : i = CHOOSE k \in DOMAIN thread : thread[k] = p
  OBVIOUS
<1>6. i \in 1..Len(thread) /\ thread[i] = p
  BY <1>2, <1>3, <1>4, <1>5
<1>7. /\ Context(p, u).ancestors = {thread[k] : k \in 1..(i - 1)}
      /\ Context(p, u).descendants = {thread[k] : k \in (i + 1)..Len(thread)}
  BY <1>1, <1>5 DEF Context
<1>8. ASSUME NEW q \in Seen(p, u), q \in Above[p] PROVE q \in Context(p, u).ancestors
  <2>1. PICK k \in 1..Len(thread) : thread[k] = q
    BY <1>3
  <2>2. k < i
    BY <1>2, <1>6, <1>8, <2>1
  <2>3. k \in 1..(i - 1)
    BY <1>2, <1>6, <2>2
  <2> QED
    BY <1>7, <2>1, <2>3
<1>9. ASSUME NEW q \in Seen(p, u), p \in Above[q] PROVE q \in Context(p, u).descendants
  <2>1. PICK k \in 1..Len(thread) : thread[k] = q
    BY <1>3
  <2>2. i < k
    BY <1>2, <1>6, <1>9, <2>1
  <2>3. k \in (i + 1)..Len(thread)
    BY <1>2, <1>6, <2>2
  <2> QED
    BY <1>7, <2>1, <2>3
<1> QED
  BY <1>1, <1>2, <1>8, <1>9 DEF Seen

-----------------------------------------------------------------------------
(* The theorems *)

\* Every post passes the checks of Post::new, replies are to older posts that
\* are no reposts, and parents, originals and links exist.
THEOREM AudienceTypeCorrect == Spec => []TypeOK
<1>1. IInv => TypeOK
  BY DEF IInv
<1> QED
  BY <1>1, SpecIInv, PTL

\* build_visibility_filter and can_view_post are one rule: whatever a timeline,
\* a tag or an author's page shows can be opened and searched, and other servers
\* can fetch whatever the outbox names as an object, reposted posts among them,
\* and whatever the feed shows, for any posts and rows.
THEOREM AudienceListsAgree == Spec => []ListsAgreeWithStatus
<1>1. IInv => ListsAgreeWithStatus
  BY ListsAgree DEF IInv
<1> QED
  BY <1>1, SpecIInv, PTL

\* get_related_posts loads all that add_related_posts looks up, of any list of posts.
THEOREM AudienceEmbeddedLoaded == Spec => []EmbeddedLoaded
BY RelatedLoaded, PTL

\* From any post that is not a repost and that one may read, get_thread returns
\* all of the conversation that one may read, whatever hidden posts are in between,
\* each post once and after what it replies to; get_context finds what is above
\* the post before it and what is below it after it.
THEOREM AudienceThreadComplete == Spec => []ThreadComplete
<1>1. IInv => ThreadComplete
  BY ThreadsComplete DEF IInv
<1> QED
  BY <1>1, SpecIInv, PTL

\* The Create of a note goes to the actors it is addressed to, and the Delete of a
\* direct or subscribers-only post to all who were sent it: however follows and
\* subscriptions have changed since and whatever remote notes were updated.
THEOREM AudienceDeliveryAgrees == Spec => []DeliveryAgrees
<1>1. IInv => DeliveryAgrees
  BY Deliveries
<1> QED
  BY <1>1, SpecIInv, PTL

\* The reply validation of create_status does not widen the audience of a
\* conversation, also when a reply of a user is for subscribers.
THEOREM AudienceRepliesDoNotWiden == Spec => RepliesDoNotWiden
<1>1. ASSUME IInv, [Next]_vars
      PROVE  [\A p \in DOMAIN posts' \ DOMAIN posts :
                LET post == posts'[p]
                IN  post.author \in Local /\ post.parent # None /\ post.visibility # "public" =>
                      \A u \in Local \ {post.author} :
                          Visible(p, u)' => Visible(post.parent, u)]_vars
  BY <1>1, StepNarrows DEF Narrows, Ids
<1> QED
  BY <1>1, SpecIInv, PTL DEF Spec, RepliesDoNotWiden
================================================================================
