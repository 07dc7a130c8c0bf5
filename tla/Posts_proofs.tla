------------------------------- MODULE Posts_proofs -------------------------------
(***************************************************************************)
(* Posts, for any finite sets of profiles and ids: proofs that no row      *)
(* refers to one that is gone and that the four counters are exact.        *)
(***************************************************************************)
EXTENDS Posts, FiniteSetTheorems, WellFoundedInduction, TLAPS

\* A repost is no reply.
RepostsPlain == \A p \in Ids : posts[p].original # None => posts[p].parent = None

\* The table is a function from ids to rows.
IsTable == posts \in [Ids -> Post]

IInv == TypeOK /\ IsTable /\ RepostsPlain /\ PostCountersExact

-----------------------------------------------------------------------------
(* The context of a set of posts *)

\* The context contains the posts, and what depends on one of its posts; each
\* of the others depends on one of them.
LEMMA ContextFacts ==
    ASSUME NEW S \in SUBSET Ids
    PROVE  /\ S \subseteq Context(S) /\ Context(S) \subseteq Ids
           /\ \A q \in Context(S) : Dependents(q) \subseteq Context(S)
           /\ \A p \in Context(S) \ S : \E q \in Context(S) : p \in Dependents(q)
<1> DEFINE Closed(C) == S \subseteq C /\ \A q \in C : Dependents(q) \subseteq C
<1>1. Context(S) = {p \in Ids : \A C \in SUBSET Ids : Closed(C) => p \in C}
  BY DEF Context
<1>2. \A q : Dependents(q) \subseteq Ids
  BY DEF Dependents
<1>3. S \subseteq Context(S) /\ Context(S) \subseteq Ids
  BY <1>1
<1>4. ASSUME NEW q \in Context(S), NEW p \in Dependents(q) PROVE p \in Context(S)
  <2>1. \A C \in SUBSET Ids : Closed(C) => p \in C
    BY <1>1, <1>4
  <2> QED
    BY <1>1, <1>2, <1>4, <2>1
<1>5. ASSUME NEW p \in Context(S) \ S, \A q \in Context(S) : p \notin Dependents(q) PROVE FALSE
  <2> DEFINE C == Context(S) \ {p}
  <2>1. C \in SUBSET Ids
    BY <1>3
  <2>2. Closed(C)
    BY <1>3, <1>4, <1>5
  <2> QED
    BY <1>1, <1>5, <2>1, <2>2
<1> QED
  BY <1>3, <1>4, <1>5

-----------------------------------------------------------------------------
(* Rows of post, field by field *)

\* The row r has the contents of s ...
Keeps(r, s) ==
    /\ r.author = s.author /\ r.parent = s.parent /\ r.original = s.original
    /\ r.public = s.public

\* ... with the same mentions and links ...
Linked(r, s) == r.mentions = s.mentions /\ r.links = s.links

\* ... and counters that differ by i, j and k.
Counts(r, s, i, j, k) ==
    /\ r.replyCount = s.replyCount + i
    /\ r.repostCount = s.repostCount + j
    /\ r.reactionCount = s.reactionCount + k

LEMMA ReplyRow ==
    ASSUME NEW r \in Post, NEW c \in Int, NEW x, x = [r EXCEPT !.replyCount = r.replyCount + c]
    PROVE  x \in Post /\ Keeps(x, r) /\ Linked(x, r) /\ Counts(x, r, c, 0, 0)
BY DEF Post, Keeps, Linked, Counts

LEMMA RepostRow ==
    ASSUME NEW r \in Post, NEW c \in Int, NEW x, x = [r EXCEPT !.repostCount = r.repostCount + c]
    PROVE  x \in Post /\ Keeps(x, r) /\ Linked(x, r) /\ Counts(x, r, 0, c, 0)
BY DEF Post, Keeps, Linked, Counts

LEMMA ReactionRow ==
    ASSUME NEW r \in Post, NEW c \in Int, NEW x, x = [r EXCEPT !.reactionCount = r.reactionCount + c]
    PROVE  x \in Post /\ Keeps(x, r) /\ Linked(x, r) /\ Counts(x, r, 0, 0, c)
BY DEF Post, Keeps, Linked, Counts

LEMMA SameRow ==
    ASSUME NEW r \in Post
    PROVE  Keeps(r, r) /\ Linked(r, r) /\ Counts(r, r, 0, 0, 0)
BY DEF Post, Keeps, Linked, Counts

Change(q, p, c) == IF q = p THEN c ELSE 0

\* A table with one counter changed, if p is one of its rows.
LEMMA ReplyTable ==
    ASSUME NEW D, None \notin D, NEW T \in [D -> Post], NEW p, NEW c \in Int
    PROVE  /\ UpdateReplyCount(T, p, c) \in [D -> Post]
           /\ \A q \in D :
                /\ Keeps(UpdateReplyCount(T, p, c)[q], T[q])
                /\ Linked(UpdateReplyCount(T, p, c)[q], T[q])
                /\ Counts(UpdateReplyCount(T, p, c)[q], T[q], Change(q, p, c), 0, 0)
<1>1. CASE p \notin D
  <2>1. UpdateReplyCount(T, p, c) = T
    BY <1>1 DEF UpdateReplyCount
  <2> QED
    BY <1>1, <2>1, SameRow DEF Change
<1>2. CASE p \in D
  <2> DEFINE x == [T[p] EXCEPT !.replyCount = T[p].replyCount + c]
  <2>1. UpdateReplyCount(T, p, c) = [T EXCEPT ![p] = x]
    BY <1>2 DEF UpdateReplyCount
  <2>2. x \in Post /\ Keeps(x, T[p]) /\ Linked(x, T[p]) /\ Counts(x, T[p], c, 0, 0)
    BY <1>2, ReplyRow
  <2> HIDE DEF x
  <2> QED
    BY <1>2, <2>1, <2>2, SameRow DEF Change
<1> QED
  BY <1>1, <1>2

LEMMA RepostTable ==
    ASSUME NEW D, None \notin D, NEW T \in [D -> Post], NEW p, NEW c \in Int
    PROVE  /\ UpdateRepostCount(T, p, c) \in [D -> Post]
           /\ \A q \in D :
                /\ Keeps(UpdateRepostCount(T, p, c)[q], T[q])
                /\ Linked(UpdateRepostCount(T, p, c)[q], T[q])
                /\ Counts(UpdateRepostCount(T, p, c)[q], T[q], 0, Change(q, p, c), 0)
<1>1. CASE p \notin D
  <2>1. UpdateRepostCount(T, p, c) = T
    BY <1>1 DEF UpdateRepostCount
  <2> QED
    BY <1>1, <2>1, SameRow DEF Change
<1>2. CASE p \in D
  <2> DEFINE x == [T[p] EXCEPT !.repostCount = T[p].repostCount + c]
  <2>1. UpdateRepostCount(T, p, c) = [T EXCEPT ![p] = x]
    BY <1>2 DEF UpdateRepostCount
  <2>2. x \in Post /\ Keeps(x, T[p]) /\ Linked(x, T[p]) /\ Counts(x, T[p], 0, c, 0)
    BY <1>2, RepostRow
  <2> HIDE DEF x
  <2> QED
    BY <1>2, <2>1, <2>2, SameRow DEF Change
<1> QED
  BY <1>1, <1>2

LEMMA ReactionTable ==
    ASSUME posts \in [Ids -> Post], NEW p \in Ids, NEW c \in Int
    PROVE  /\ UpdateReactionCount(p, c) \in [Ids -> Post]
           /\ \A q \in Ids :
                /\ Keeps(UpdateReactionCount(p, c)[q], posts[q])
                /\ Linked(UpdateReactionCount(p, c)[q], posts[q])
                /\ Counts(UpdateReactionCount(p, c)[q], posts[q], 0, 0, Change(q, p, c))
<1> DEFINE x == [posts[p] EXCEPT !.reactionCount = posts[p].reactionCount + c]
<1>1. UpdateReactionCount(p, c) = [posts EXCEPT ![p] = x]
  BY DEF UpdateReactionCount
<1>2. x \in Post /\ Keeps(x, posts[p]) /\ Linked(x, posts[p]) /\ Counts(x, posts[p], 0, 0, c)
  BY ReactionRow
<1> HIDE DEF x
<1> QED
  BY <1>1, <1>2, SameRow DEF Change

\* Both counters of the rows that a post refers to.
LEMMA BothTables ==
    ASSUME NEW D, None \notin D, NEW T \in [D -> Post], NEW p, NEW o, NEW c \in Int, NEW U,
           U = UpdateRepostCount(UpdateReplyCount(T, p, c), o, c)
    PROVE  /\ U \in [D -> Post]
           /\ \A q \in D : /\ Keeps(U[q], T[q]) /\ Linked(U[q], T[q])
                           /\ Counts(U[q], T[q], Change(q, p, c), Change(q, o, c), 0)
<1> DEFINE V == UpdateReplyCount(T, p, c)
<1>1. V \in [D -> Post]
      /\ \A q \in D : Keeps(V[q], T[q]) /\ Linked(V[q], T[q]) /\ Counts(V[q], T[q], Change(q, p, c), 0, 0)
  BY ReplyTable
<1> HIDE DEF V
<1>2. U = UpdateRepostCount(V, o, c)
  BY DEF V
<1>3. U \in [D -> Post]
      /\ \A q \in D : Keeps(U[q], V[q]) /\ Linked(U[q], V[q]) /\ Counts(U[q], V[q], 0, Change(q, o, c), 0)
  BY <1>1, <1>2, RepostTable
<1>4. \A q \in D : T[q] \in Post /\ V[q] \in Post /\ Change(q, p, c) \in Int /\ Change(q, o, c) \in Int
  BY <1>1 DEF Change
<1>5. ASSUME NEW q \in D
      PROVE  Keeps(U[q], T[q]) /\ Linked(U[q], T[q])
             /\ Counts(U[q], T[q], Change(q, p, c), Change(q, o, c), 0)
  <2>1. Keeps(U[q], T[q]) /\ Linked(U[q], T[q])
    BY <1>1, <1>3 DEF Keeps, Linked
  <2>2. T[q].replyCount \in Int /\ T[q].repostCount \in Int /\ T[q].reactionCount \in Int
    BY <1>4 DEF Post
  <2>3. Counts(U[q], V[q], 0, Change(q, o, c), 0) /\ Counts(V[q], T[q], Change(q, p, c), 0, 0)
    BY <1>1, <1>3
  <2>4. Counts(U[q], T[q], Change(q, p, c), Change(q, o, c), 0)
    BY <1>4, <2>2, <2>3 DEF Counts
  <2> QED
    BY <2>1, <2>4
<1> QED
  BY <1>3, <1>5

-----------------------------------------------------------------------------
(* What the counters count *)

Replies(q)   == {x \in Ids : posts[x].parent = q}
Reposts(q)   == {x \in Ids : posts[x].original = q}
Reactions(q) == {r \in reactions : r[2] = q}
ByAuthor(a)  == {p \in Ids : posts[p].author = a}

LEMMA CountersAre ==
    PostCountersExact <=>
        /\ \A a \in Profile : postCount[a] = Cardinality(ByAuthor(a))
        /\ \A p \in Ids :
            /\ posts[p].replyCount = Cardinality(Replies(p))
            /\ posts[p].repostCount = Cardinality(Reposts(p))
            /\ posts[p].reactionCount = Cardinality(Reactions(p))
BY DEF PostCountersExact, ByAuthor, Replies, Reposts, Reactions

LEMMA CountersAreNext ==
    ASSUME \A a \in Profile : postCount'[a] = Cardinality(ByAuthor(a)'),
           \A p \in Ids' : /\ posts'[p].replyCount = Cardinality(Replies(p)')
                           /\ posts'[p].repostCount = Cardinality(Reposts(p)')
                           /\ posts'[p].reactionCount = Cardinality(Reactions(p)')
    PROVE  PostCountersExact'
<1>1. \A p \in Ids' :
        /\ posts'[p].replyCount = Cardinality({q \in Ids' : posts'[q].parent = p})
        /\ posts'[p].repostCount = Cardinality({q \in Ids' : posts'[q].original = p})
        /\ posts'[p].reactionCount = Cardinality({r \in reactions' : r[2] = p})
  BY DEF Replies, Reposts, Reactions
<1>2. \A a \in Profile : postCount'[a] = Cardinality({p \in Ids' : posts'[p].author = a})
  BY DEF ByAuthor
<1> QED
  BY <1>1, <1>2 DEF PostCountersExact

LEMMA FiniteSets ==
    ASSUME TypeOK
    PROVE  IsFiniteSet(Ids) /\ IsFiniteSet(reactions)
<1>1. IsFiniteSet(Ids) /\ IsFiniteSet(profiles)
  BY FS_Subset, PostsAssumption DEF TypeOK
<1>2. IsFiniteSet(profiles \X Ids)
  BY <1>1, FS_Product
<1> QED
  BY <1>1, <1>2, FS_Subset DEF TypeOK

LEMMA PartsFinite ==
    ASSUME TypeOK
    PROVE  /\ \A q : IsFiniteSet(Replies(q)) /\ IsFiniteSet(Reposts(q))
                     /\ IsFiniteSet(Reactions(q)) /\ IsFiniteSet(ByAuthor(q))
<1>1. IsFiniteSet(Ids) /\ IsFiniteSet(reactions)
  BY FiniteSets
<1>2. \A q : Replies(q) \subseteq Ids /\ Reposts(q) \subseteq Ids /\ Reactions(q) \subseteq reactions
             /\ ByAuthor(q) \subseteq Ids
  BY DEF Replies, Reposts, Reactions, ByAuthor
<1> QED
  BY <1>1, <1>2, FS_Subset

LEMMA Less ==
    ASSUME NEW S, IsFiniteSet(S), NEW T, NEW G, T = S \ G, NEW I, I = S \cap G
    PROVE  Cardinality(T) = Cardinality(S) - Cardinality(I)
BY FS_Difference

LEMMA OneMore ==
    ASSUME NEW S, IsFiniteSet(S), NEW x, x \notin S, NEW T, T = S \cup {x}
    PROVE  Cardinality(T) = Cardinality(S) + 1
BY FS_AddElement

\* Rows of a table as TypeOK has them.
LEMMA PostRows ==
    ASSUME TypeOK
    PROVE  /\ None \notin Ids
           /\ \A p \in Ids : posts[p] \in Post
BY PostsAssumption DEF TypeOK

-----------------------------------------------------------------------------
(* Deletions *)

\* The posts of S with their context, and the profiles that are gone, disappear;
\* a row that is left is changed by the rows of S, which may refer to it, and by
\* the reactions of those profiles.
Deletes(S) ==
    LET gone == Context(S) IN
    /\ Ids' = Ids \ gone /\ posts' \in [Ids' -> Post]
    /\ profiles' \subseteq profiles
    /\ \A p \in Ids \ gone : posts[p].author \in profiles'
    /\ reactions' = {r \in reactions : r[1] \in profiles' /\ r[2] \notin gone}
    /\ postCount' \in [Profile -> Int]
    /\ \A a \in Profile : postCount'[a] = postCount[a] - Cardinality(ByAuthor(a) \cap gone)
    /\ found' \subseteq PostId

RowsLeft(S) ==
    \A q \in Ids \ Context(S) :
        /\ posts'[q] \in Post /\ Keeps(posts'[q], posts[q])
        /\ posts'[q].mentions = posts[q].mentions \cap profiles'
        /\ posts'[q].links = posts[q].links \ Context(S)
        /\ posts'[q].replyCount = posts[q].replyCount - Cardinality(Replies(q) \cap S)
        /\ posts'[q].repostCount = posts[q].repostCount - Cardinality(Reposts(q) \cap S)
        /\ posts'[q].reactionCount
              = posts[q].reactionCount - Cardinality({r \in Reactions(q) : r[1] \notin profiles'})

\* Of what refers to a row that is left, only rows of S go.
LEMMA ReferringGone ==
    ASSUME TypeOK, RepostsPlain, NEW S \in SUBSET Ids, NEW q \in Ids \ Context(S)
    PROVE  /\ Replies(q) \cap Context(S) = Replies(q) \cap S
           /\ Reposts(q) \cap Context(S) = Reposts(q) \cap S
<1>1. S \subseteq Context(S) /\ Context(S) \subseteq Ids
  BY ContextFacts
<1>2. ASSUME NEW x \in Context(S) \ S
      PROVE  x \in Ids /\ (posts[x].parent \in Context(S) \/ posts[x].original \in Context(S))
  <2>1. \E y \in Context(S) : x \in Dependents(y)
    BY ContextFacts
  <2> QED
    BY <1>1, <2>1 DEF Dependents
<1>3. \A x \in Ids : posts[x].original # None => posts[x].parent = None
  BY DEF RepostsPlain
<1>4. None \notin Context(S) /\ q # None
  BY <1>1, PostRows
<1>5. \A x \in Context(S) \ S : x \notin Replies(q) /\ x \notin Reposts(q)
  BY <1>2, <1>3, <1>4 DEF Replies, Reposts
<1> QED
  BY <1>1, <1>5

LEMMA DeletesIInv ==
    ASSUME IInv, NEW S \in SUBSET Ids, Deletes(S), RowsLeft(S)
    PROVE  IInv'
<1> DEFINE gone == Context(S)
<1>1. S \subseteq gone /\ gone \subseteq Ids /\ \A q \in gone : Dependents(q) \subseteq gone
  BY ContextFacts
<1>2. Ids' = Ids \ gone /\ profiles' \subseteq profiles
  BY DEF Deletes
<1>3. \A q \in Ids' : posts'[q] \in Post /\ Keeps(posts'[q], posts[q])
  BY <1>2 DEF RowsLeft
<1>4. \A p \in Ids' : posts[p].parent \notin gone /\ posts[p].original \notin gone
  BY <1>1, <1>2 DEF Dependents
<1>5. TypeOK'
  <2>1. \A p \in Ids : /\ {posts[p].parent, posts[p].original} \subseteq Ids \cup {None}
                       /\ posts[p].mentions \subseteq profiles /\ posts[p].links \subseteq Ids
    BY DEF IInv, TypeOK
  <2>2. \A p \in Ids' : {posts'[p].parent, posts'[p].original} \subseteq Ids' \cup {None}
    BY <1>2, <1>3, <1>4, <2>1 DEF Keeps
  <2>3. \A p \in Ids' : posts'[p].mentions \subseteq profiles' /\ posts'[p].links \subseteq Ids'
    BY <1>2, <2>1 DEF RowsLeft
  <2>4. \A p \in Ids' : posts'[p].author \in profiles'
    BY <1>2, <1>3 DEF Deletes, Keeps
  <2>5. reactions' \subseteq profiles' \X Ids'
    BY <1>2 DEF Deletes, IInv, TypeOK
  <2>6. profiles' \subseteq Profile /\ Ids' \subseteq PostId
    BY <1>2 DEF IInv, TypeOK
  <2>7. postCount' \in [Profile -> Int] /\ found' \subseteq PostId
    BY DEF Deletes
  <2> QED
    BY <1>3, <2>2, <2>3, <2>4, <2>5, <2>6, <2>7 DEF TypeOK
<1>6. RepostsPlain'
  BY <1>2, <1>3 DEF IInv, RepostsPlain, Keeps
<1>7. /\ \A a \in Profile : postCount[a] = Cardinality(ByAuthor(a))
      /\ \A p \in Ids : /\ posts[p].replyCount = Cardinality(Replies(p))
                        /\ posts[p].repostCount = Cardinality(Reposts(p))
                        /\ posts[p].reactionCount = Cardinality(Reactions(p))
  BY CountersAre DEF IInv
<1>8. \A q : IsFiniteSet(Replies(q)) /\ IsFiniteSet(Reposts(q))
             /\ IsFiniteSet(Reactions(q)) /\ IsFiniteSet(ByAuthor(q))
  BY PartsFinite DEF IInv
<1>9. ASSUME NEW a \in Profile PROVE postCount'[a] = Cardinality(ByAuthor(a)')
  <2>1. ByAuthor(a)' = ByAuthor(a) \ gone
    BY <1>2, <1>3 DEF ByAuthor, Keeps
  <2>2. Cardinality(ByAuthor(a) \ gone) = Cardinality(ByAuthor(a)) - Cardinality(ByAuthor(a) \cap gone)
    BY <1>8, Less
  <2>3. postCount'[a] = postCount[a] - Cardinality(ByAuthor(a) \cap gone)
    BY DEF Deletes
  <2> QED
    BY <1>7, <2>1, <2>2, <2>3
<1>10. ASSUME NEW q \in Ids'
       PROVE  /\ posts'[q].replyCount = Cardinality(Replies(q)')
              /\ posts'[q].repostCount = Cardinality(Reposts(q)')
              /\ posts'[q].reactionCount = Cardinality(Reactions(q)')
  <2>1. q \in Ids /\ q \in Ids \ gone
    BY <1>2
  <2>2. Replies(q) \cap gone = Replies(q) \cap S /\ Reposts(q) \cap gone = Reposts(q) \cap S
    BY <2>1, ReferringGone DEF IInv
  <2>3. Replies(q)' = Replies(q) \ gone /\ Reposts(q)' = Reposts(q) \ gone
    BY <1>2, <1>3 DEF Replies, Reposts, Keeps
  <2>4. posts'[q].replyCount = Cardinality(Replies(q)')
    <3>1. Cardinality(Replies(q) \ gone) = Cardinality(Replies(q)) - Cardinality(Replies(q) \cap gone)
      BY <1>8, Less
    <3>2. posts'[q].replyCount = posts[q].replyCount - Cardinality(Replies(q) \cap S)
      BY <2>1 DEF RowsLeft
    <3> QED
      BY <1>7, <2>1, <2>2, <2>3, <3>1, <3>2
  <2>5. posts'[q].repostCount = Cardinality(Reposts(q)')
    <3>1. Cardinality(Reposts(q) \ gone) = Cardinality(Reposts(q)) - Cardinality(Reposts(q) \cap gone)
      BY <1>8, Less
    <3>2. posts'[q].repostCount = posts[q].repostCount - Cardinality(Reposts(q) \cap S)
      BY <2>1 DEF RowsLeft
    <3> QED
      BY <1>7, <2>1, <2>2, <2>3, <3>1, <3>2
  <2>6. posts'[q].reactionCount = Cardinality(Reactions(q)')
    <3> DEFINE G == {r \in Reactions(q) : r[1] \notin profiles'}
    <3>1. Reactions(q)' = Reactions(q) \ G
      <4>1. reactions' = {r \in reactions : r[1] \in profiles' /\ r[2] \notin gone}
        BY DEF Deletes
      <4>2. Reactions(q)' = {r \in reactions' : r[2] = q}
        BY DEF Reactions
      <4> HIDE DEF gone
      <4>3. ASSUME NEW r PROVE r \in Reactions(q)' <=> r \in Reactions(q) \ G
        BY <2>1, <4>1, <4>2 DEF Reactions
      <4> QED
        BY <4>3
    <3>2. Cardinality(Reactions(q) \ G) = Cardinality(Reactions(q)) - Cardinality(Reactions(q) \cap G)
      BY <1>8, Less
    <3>3. Reactions(q) \cap G = G
      OBVIOUS
    <3>4. posts'[q].reactionCount = posts[q].reactionCount - Cardinality(G)
      BY <2>1 DEF RowsLeft
    <3> HIDE DEF G
    <3> QED
      BY <1>7, <2>1, <3>1, <3>2, <3>3, <3>4
  <2> QED
    BY <2>4, <2>5, <2>6
<1>11. PostCountersExact'
  BY <1>9, <1>10, CountersAreNext
<1>12. IsTable'
  BY DEF Deletes, IsTable
<1> QED
  BY <1>5, <1>6, <1>11, <1>12 DEF IInv

\* The rows of a table are those that are left, without the links to posts and
\* the mentions of people who are gone.
RowsWithout(rest, gone, people) ==
    /\ rest \in [Ids \ gone -> Post]
    /\ \A q \in Ids \ gone :
        /\ Keeps(rest[q], posts[q]) /\ Counts(rest[q], posts[q], 0, 0, 0)
        /\ rest[q].links = posts[q].links \ gone
        /\ rest[q].mentions = posts[q].mentions \cap people

LEMMA RemainingRows ==
    ASSUME TypeOK, NEW gone, NEW people
    PROVE  RowsWithout(Remaining(gone, people), gone, people)
<1> DEFINE x(q) == [posts[q] EXCEPT !.links = posts[q].links \ gone,
                                    !.mentions = posts[q].mentions \cap people]
<1>1. PICK rest : rest = Remaining(gone, people)
  OBVIOUS
<1>2. rest = [q \in Ids \ gone |-> x(q)]
  BY <1>1 DEF Remaining
<1>3. ASSUME NEW q \in Ids \ gone
      PROVE  /\ x(q) \in Post /\ Keeps(x(q), posts[q]) /\ Counts(x(q), posts[q], 0, 0, 0)
             /\ x(q).links = posts[q].links \ gone
             /\ x(q).mentions = posts[q].mentions \cap people
  <2>1. PICK r : r = posts[q]
    OBVIOUS
  <2>2. PICK y : y = [r EXCEPT !.links = r.links \ gone, !.mentions = r.mentions \cap people]
    OBVIOUS
  <2>3. r \in Post /\ y = x(q)
    BY <2>1, <2>2, PostRows
  <2> HIDE DEF x
  <2>4. /\ y.author = r.author /\ y.parent = r.parent /\ y.original = r.original
        /\ y.public = r.public
        /\ y.replyCount = r.replyCount /\ y.repostCount = r.repostCount
        /\ y.reactionCount = r.reactionCount
        /\ y.links = r.links \ gone /\ y.mentions = r.mentions \cap people
    BY <2>2, <2>3 DEF Post
  <2>5. r.replyCount \in Int /\ r.repostCount \in Int /\ r.reactionCount \in Int
    BY <2>3 DEF Post
  <2>6. r.links \ gone \in SUBSET PostId /\ r.mentions \cap people \in SUBSET Local
    BY <2>3 DEF Post
  <2>7. y \in Post
    BY <2>2, <2>3, <2>6 DEF Post
  <2>8. Keeps(y, r) /\ Counts(y, r, 0, 0, 0)
    BY <2>4, <2>5 DEF Keeps, Counts
  <2> QED
    BY <2>1, <2>3, <2>4, <2>7, <2>8
<1> HIDE DEF x
<1>4. RowsWithout(rest, gone, people)
  BY <1>2, <1>3 DEF RowsWithout
<1> QED
  BY <1>1, <1>4

LEMMA CountersInt ==
    ASSUME TypeOK, NEW q \in Ids
    PROVE  posts[q].replyCount \in Int /\ posts[q].repostCount \in Int /\ posts[q].reactionCount \in Int
<1>1. posts[q] \in Post
  BY PostRows
<1> QED
  BY <1>1 DEF Post

\* What is counted of the authors of the posts that go.
LEMMA CountedPosts ==
    ASSUME TypeOK, NEW gone \in SUBSET Ids, NEW a
    PROVE  /\ Counted(a, gone) = Cardinality(ByAuthor(a) \cap gone)
           /\ Counted(a, gone) \in Nat
<1>1. {p \in gone : posts[p].author = a} = ByAuthor(a) \cap gone
  BY DEF ByAuthor
<1>2. IsFiniteSet(ByAuthor(a) \cap gone)
  BY PartsFinite, FS_Intersection
<1> QED
  BY <1>1, <1>2, FS_CardinalityType DEF Counted

LEMMA CardinalityOfOne ==
    ASSUME NEW T, NEW x, NEW b, T = IF b THEN {x} ELSE {}
    PROVE  Cardinality(T) = IF b THEN 1 ELSE 0
<1>1. Cardinality({x}) = 1 /\ Cardinality({}) = 0
  BY FS_Singleton, FS_EmptySet
<1> QED
  BY <1>1

LEMMA DeletePostIInv ==
    ASSUME IInv, NEW p, DeletePostRow(p), found' \subseteq PostId
    PROVE  IInv'
<1> DEFINE S    == {p}
           gone == Context({p})
<1>0. PICK rest : rest = Remaining(gone, profiles)
  OBVIOUS
<1>1. TypeOK /\ p \in Ids /\ S \in SUBSET Ids
  BY DEF IInv, DeletePostRow
<1>2. gone \subseteq Ids /\ p \in gone
  BY <1>1, ContextFacts
<1>3. /\ rest \in [Ids \ gone -> Post]
      /\ \A q \in Ids \ gone :
            /\ Keeps(rest[q], posts[q]) /\ Counts(rest[q], posts[q], 0, 0, 0)
            /\ rest[q].links = posts[q].links \ gone
            /\ rest[q].mentions = posts[q].mentions \cap profiles
  <2>1. RowsWithout(rest, gone, profiles)
    BY <1>0, <1>1, RemainingRows
  <2> QED
    BY <2>1 DEF RowsWithout
<1>4. posts' = UpdateRepostCount(UpdateReplyCount(rest, posts[p].parent, -1), posts[p].original, -1)
  BY <1>0 DEF DeletePostRow
<1>5. /\ reactions' = {r \in reactions : r[2] \notin gone}
      /\ postCount' = [a \in Profile |-> postCount[a] - Counted(a, gone)]
      /\ profiles' = profiles
  BY DEF DeletePostRow
<1>6. None \notin Ids \ gone
  BY <1>1, PostRows
<1>7. /\ posts' \in [Ids \ gone -> Post]
      /\ \A q \in Ids \ gone :
            /\ Keeps(posts'[q], rest[q]) /\ Linked(posts'[q], rest[q])
            /\ Counts(posts'[q], rest[q], Change(q, posts[p].parent, -1), Change(q, posts[p].original, -1), 0)
  <2> HIDE DEF gone
  <2>1. -1 \in Int /\ rest \in [Ids \ gone -> Post]
    BY <1>3
  <2> QED
    BY <1>4, <1>6, <2>1, BothTables
<1>8. Ids' = Ids \ gone
  BY <1>7 DEF Ids
<1>9. posts' \in [Ids' -> Post]
  BY <1>7, <1>8
<1>10. Deletes(S)
  <2>1. \A r \in reactions : r[1] \in profiles
    BY <1>1 DEF TypeOK
  <2>2. \A q \in Ids \ gone : posts[q].author \in profiles'
    BY <1>1, <1>5 DEF TypeOK
  <2>3. \A a \in Profile : postCount'[a] = postCount[a] - Cardinality(ByAuthor(a) \cap gone)
    BY <1>1, <1>2, <1>5, CountedPosts
  <2>4. postCount' \in [Profile -> Int]
    <3>1. \A a \in Profile : Counted(a, gone) \in Nat /\ postCount[a] \in Int
      BY <1>1, <1>2, CountedPosts DEF TypeOK
    <3>2. postCount' = [a \in Profile |-> postCount[a] - Counted(a, gone)]
      BY <1>5
    <3> HIDE DEF gone
    <3> QED
      BY <3>1, <3>2
  <2>5. reactions' = {r \in reactions : r[1] \in profiles' /\ r[2] \notin gone}
    BY <1>5, <2>1
  <2> QED
    BY <1>5, <1>8, <1>9, <2>2, <2>3, <2>4, <2>5 DEF Deletes
<1>11. RowsLeft(S)
  <2> SUFFICES ASSUME NEW q \in Ids \ gone
               PROVE  /\ posts'[q] \in Post /\ Keeps(posts'[q], posts[q])
                      /\ posts'[q].mentions = posts[q].mentions \cap profiles'
                      /\ posts'[q].links = posts[q].links \ gone
                      /\ posts'[q].replyCount = posts[q].replyCount - Cardinality(Replies(q) \cap S)
                      /\ posts'[q].repostCount = posts[q].repostCount - Cardinality(Reposts(q) \cap S)
                      /\ posts'[q].reactionCount = posts[q].reactionCount
                            - Cardinality({r \in Reactions(q) : r[1] \notin profiles'})
    BY DEF RowsLeft
  <2>1. posts'[q] \in Post /\ Keeps(posts'[q], posts[q])
    BY <1>3, <1>7 DEF Keeps
  <2>2. posts'[q].mentions = posts[q].mentions \cap profiles' /\ posts'[q].links = posts[q].links \ gone
    BY <1>3, <1>5, <1>7 DEF Linked
  <2>3. Counts(posts'[q], posts[q], Change(q, posts[p].parent, -1), Change(q, posts[p].original, -1), 0)
    <3>1. posts[q].replyCount \in Int /\ posts[q].repostCount \in Int /\ posts[q].reactionCount \in Int
      BY <1>1, CountersInt
    <3>2. Counts(rest[q], posts[q], 0, 0, 0)
          /\ Counts(posts'[q], rest[q], Change(q, posts[p].parent, -1), Change(q, posts[p].original, -1), 0)
      BY <1>3, <1>7
    <3>3. Change(q, posts[p].parent, -1) \in Int /\ Change(q, posts[p].original, -1) \in Int
      BY DEF Change
    <3> QED
      BY <3>1, <3>2, <3>3 DEF Counts
  <2>4. Cardinality(Replies(q) \cap S) = IF posts[p].parent = q THEN 1 ELSE 0
    <3>1. Replies(q) \cap S = IF posts[p].parent = q THEN {p} ELSE {}
      BY <1>1 DEF Replies
    <3> QED
      BY <3>1, CardinalityOfOne
  <2>5. Cardinality(Reposts(q) \cap S) = IF posts[p].original = q THEN 1 ELSE 0
    <3>1. Reposts(q) \cap S = IF posts[p].original = q THEN {p} ELSE {}
      BY <1>1 DEF Reposts
    <3> QED
      BY <3>1, CardinalityOfOne
  <2>6. Cardinality({r \in Reactions(q) : r[1] \notin profiles'}) = 0
    <3>1. {r \in Reactions(q) : r[1] \notin profiles'} = {}
      BY <1>1, <1>5 DEF Reactions, TypeOK
    <3> QED
      BY <3>1, FS_EmptySet
  <2>7. posts[q].replyCount \in Int /\ posts[q].repostCount \in Int /\ posts[q].reactionCount \in Int
    BY <1>1, CountersInt
  <2>8. posts'[q].replyCount = posts[q].replyCount - Cardinality(Replies(q) \cap S)
    BY <2>3, <2>4, <2>7 DEF Counts, Change
  <2>9. posts'[q].repostCount = posts[q].repostCount - Cardinality(Reposts(q) \cap S)
    BY <2>3, <2>5, <2>7 DEF Counts, Change
  <2>10. posts'[q].reactionCount = posts[q].reactionCount
            - Cardinality({r \in Reactions(q) : r[1] \notin profiles'})
    BY <2>3, <2>6, <2>7 DEF Counts
  <2> QED
    BY <2>1, <2>2, <2>8, <2>9, <2>10
<1> QED
  BY <1>1, <1>10, <1>11, DeletesIInv

LEMMA DeleteProfileIInv ==
    ASSUME IInv, NEW a \in Profile, DeleteProfile(a)
    PROVE  IInv'
<1> DEFINE S    == {p \in Ids : posts[p].author = a}
           gone == Context(S)
<1>0. PICK rest : rest = Remaining(gone, profiles \ {a})
  OBVIOUS
<1> DEFINE i(q) == Cardinality({p \in Ids : posts[p].author = a /\ posts[p].parent = q})
           j(q) == Cardinality({p \in Ids : posts[p].author = a /\ posts[p].original = q})
           k(q) == IF <<a, q>> \in reactions THEN rest[q].reactionCount - 1 ELSE rest[q].reactionCount
<1>1. TypeOK /\ S \in SUBSET Ids
  BY DEF IInv
<1>2. gone \subseteq Ids /\ S \subseteq gone
  BY <1>1, ContextFacts
<1>3. /\ rest \in [Ids \ gone -> Post]
      /\ \A q \in Ids \ gone :
            /\ Keeps(rest[q], posts[q]) /\ Counts(rest[q], posts[q], 0, 0, 0)
            /\ rest[q].links = posts[q].links \ gone
            /\ rest[q].mentions = posts[q].mentions \cap (profiles \ {a})
  <2>1. RowsWithout(rest, gone, profiles \ {a})
    BY <1>0, <1>1, RemainingRows
  <2> QED
    BY <2>1 DEF RowsWithout
<1>4. posts' = [q \in Ids \ gone |->
          [rest[q] EXCEPT !.replyCount = rest[q].replyCount - i(q),
                          !.repostCount = rest[q].repostCount - j(q),
                          !.reactionCount = k(q)]]
  BY <1>0 DEF DeleteProfile
<1>5. /\ reactions' = {r \in reactions : r[1] # a /\ r[2] \notin gone}
      /\ postCount' = [b \in Profile |-> IF b = a THEN 0 ELSE postCount[b] - Counted(b, gone)]
      /\ profiles' = profiles \ {a} /\ found' = found
  BY DEF DeleteProfile
<1>6. \A q : /\ i(q) = Cardinality(Replies(q) \cap S) /\ j(q) = Cardinality(Reposts(q) \cap S)
             /\ i(q) \in Nat /\ j(q) \in Nat
  <2> TAKE q
  <2>1. {p \in Ids : posts[p].author = a /\ posts[p].parent = q} = Replies(q) \cap S
        /\ {p \in Ids : posts[p].author = a /\ posts[p].original = q} = Reposts(q) \cap S
    BY DEF Replies, Reposts
  <2>2. IsFiniteSet(Replies(q) \cap S) /\ IsFiniteSet(Reposts(q) \cap S)
    BY <1>1, PartsFinite, FS_Intersection
  <2> QED
    BY <2>1, <2>2, FS_CardinalityType
<1>7. Ids' = Ids \ gone
  BY <1>4 DEF Ids
<1>8. \A q \in Ids \ gone : /\ posts[q].replyCount \in Int /\ posts[q].repostCount \in Int
                            /\ posts[q].reactionCount \in Int
  BY <1>1, CountersInt
<1>9. \A q \in Ids \ gone : /\ rest[q].replyCount = posts[q].replyCount
                            /\ rest[q].repostCount = posts[q].repostCount
                            /\ rest[q].reactionCount = posts[q].reactionCount
  <2> HIDE DEF gone
  <2>1. \A q \in Ids \ gone : Counts(rest[q], posts[q], 0, 0, 0)
    BY <1>3
  <2> QED
    BY <1>8, <2>1 DEF Counts
<1>10. \A q \in Ids \ gone : k(q) \in Int
  <2> HIDE DEF gone
  <2> QED
    BY <1>8, <1>9
<1> HIDE DEF i, j, k
<1>11. ASSUME NEW q \in Ids \ gone
       PROVE  /\ posts'[q] \in Post /\ Keeps(posts'[q], rest[q]) /\ Linked(posts'[q], rest[q])
              /\ posts'[q].replyCount = rest[q].replyCount - i(q)
              /\ posts'[q].repostCount = rest[q].repostCount - j(q)
              /\ posts'[q].reactionCount = k(q)
  <2>1. PICK r : r = rest[q]
    OBVIOUS
  <2>2. PICK m, n, o : m = r.replyCount - i(q) /\ n = r.repostCount - j(q) /\ o = k(q)
    OBVIOUS
  <2>3. r \in Post /\ m \in Int /\ n \in Int /\ o \in Int
    BY <1>3, <1>6, <1>8, <1>9, <1>10, <2>1, <2>2
  <2>4. PICK x : x = [r EXCEPT !.replyCount = m, !.repostCount = n, !.reactionCount = o]
    OBVIOUS
  <2>5. posts'[q] = x
    BY <1>4, <2>1, <2>2, <2>4
  <2>6. x \in Post
    BY <2>3, <2>4 DEF Post
  <2>7. Keeps(x, r) /\ Linked(x, r) /\ x.replyCount = m /\ x.repostCount = n /\ x.reactionCount = o
    BY <2>3, <2>4 DEF Post, Keeps, Linked
  <2> QED
    BY <2>1, <2>2, <2>5, <2>6, <2>7
<1>12. posts' \in [Ids' -> Post]
  <2>1. \A q \in Ids \ gone : posts'[q] \in Post
    BY <1>11
  <2>2. posts' = [q \in Ids \ gone |-> posts'[q]]
    BY <1>4
  <2> HIDE DEF gone
  <2> QED
    BY <1>7, <2>1, <2>2
<1>13. Deletes(S)
  <2>1. \A q \in Ids \ gone : posts[q].author \in profiles'
    BY <1>1, <1>2, <1>5 DEF TypeOK
  <2>2. \A b \in Profile : Counted(b, gone) = Cardinality(ByAuthor(b) \cap gone) /\ Counted(b, gone) \in Nat
    BY <1>1, <1>2, CountedPosts
  <2>3. postCount[a] = Cardinality(ByAuthor(a) \cap gone)
    <3>1. postCount[a] = Cardinality(ByAuthor(a))
      BY CountersAre DEF IInv
    <3>2. ByAuthor(a) \cap gone = ByAuthor(a)
      BY <1>2 DEF ByAuthor
    <3> QED
      BY <3>1, <3>2
  <2>4. \A b \in Profile : postCount[b] \in Int
    BY <1>1 DEF TypeOK
  <2>5. postCount' = [b \in Profile |-> IF b = a THEN 0 ELSE postCount[b] - Counted(b, gone)]
    BY <1>5
  <2>6. /\ postCount' \in [Profile -> Int]
        /\ \A b \in Profile : postCount'[b] = postCount[b] - Cardinality(ByAuthor(b) \cap gone)
    <3> HIDE DEF gone
    <3>1. /\ \A b \in Profile : postCount[b] - Counted(b, gone) \in Int
          /\ postCount[a] - Counted(a, gone) = 0
      <4>1. \A b \in Profile : Counted(b, gone) \in Int /\ postCount[b] \in Int
        <5>1. ASSUME NEW b \in Profile PROVE Counted(b, gone) \in Int /\ postCount[b] \in Int
          <6>1. Counted(b, gone) \in Nat
            BY <2>2
          <6> QED
            BY <2>4, <6>1
        <5> QED
          BY <5>1
      <4>2. postCount[a] = Counted(a, gone)
        BY <2>2, <2>3
      <4> QED
        BY <4>1, <4>2
    <3>2. postCount' \in [Profile -> Int]
      BY <2>5, <3>1
    <3>3. \A b \in Profile : postCount'[b] = postCount[b] - Counted(b, gone)
      BY <2>5, <3>1
    <3> QED
      BY <2>2, <3>2, <3>3
  <2>7. reactions' = {r \in reactions : r[1] \in profiles' /\ r[2] \notin gone}
    BY <1>1, <1>5 DEF TypeOK
  <2>8. found' \subseteq PostId /\ profiles' \subseteq profiles
    BY <1>1, <1>5 DEF TypeOK
  <2> QED
    BY <1>7, <1>12, <2>1, <2>6, <2>7, <2>8 DEF Deletes
<1>14. RowsLeft(S)
  <2> SUFFICES ASSUME NEW q \in Ids \ gone
               PROVE  /\ posts'[q] \in Post /\ Keeps(posts'[q], posts[q])
                      /\ posts'[q].mentions = posts[q].mentions \cap profiles'
                      /\ posts'[q].links = posts[q].links \ gone
                      /\ posts'[q].replyCount = posts[q].replyCount - Cardinality(Replies(q) \cap S)
                      /\ posts'[q].repostCount = posts[q].repostCount - Cardinality(Reposts(q) \cap S)
                      /\ posts'[q].reactionCount = posts[q].reactionCount
                            - Cardinality({r \in Reactions(q) : r[1] \notin profiles'})
    BY DEF RowsLeft
  <2>1. /\ posts'[q] \in Post /\ Keeps(posts'[q], rest[q]) /\ Linked(posts'[q], rest[q])
        /\ posts'[q].replyCount = rest[q].replyCount - i(q)
        /\ posts'[q].repostCount = rest[q].repostCount - j(q)
        /\ posts'[q].reactionCount = k(q)
    BY <1>11
  <2>2. Keeps(posts'[q], posts[q])
    BY <1>3, <2>1 DEF Keeps
  <2>3. posts'[q].mentions = posts[q].mentions \cap profiles' /\ posts'[q].links = posts[q].links \ gone
    BY <1>3, <1>5, <2>1 DEF Linked
  <2>4. posts'[q].replyCount = posts[q].replyCount - Cardinality(Replies(q) \cap S)
        /\ posts'[q].repostCount = posts[q].repostCount - Cardinality(Reposts(q) \cap S)
    BY <1>6, <1>9, <2>1
  <2>5. Cardinality({r \in Reactions(q) : r[1] \notin profiles'}) = IF <<a, q>> \in reactions THEN 1 ELSE 0
    <3>1. \A r \in reactions : r[1] \in profiles /\ r = <<r[1], r[2]>>
      BY <1>1 DEF TypeOK
    <3>2. {r \in Reactions(q) : r[1] \notin profiles'} = IF <<a, q>> \in reactions THEN {<<a, q>>} ELSE {}
      BY <1>5, <3>1 DEF Reactions
    <3> QED
      BY <3>2, CardinalityOfOne
  <2>6. posts'[q].reactionCount = posts[q].reactionCount
            - Cardinality({r \in Reactions(q) : r[1] \notin profiles'})
    BY <1>8, <1>9, <2>1, <2>5 DEF k
  <2> QED
    BY <2>1, <2>2, <2>3, <2>4, <2>6
<1> QED
  BY <1>1, <1>13, <1>14, DeletesIInv

-----------------------------------------------------------------------------
(* Insertions and updates *)

LEMMA InsertPostIInv ==
    ASSUME IInv, NEW a \in Profile, NEW parent, NEW original, NEW public \in BOOLEAN,
           NEW mentions \in SUBSET Local, NEW links,
           parent = None \/ original = None,
           InsertPost(a, parent, original, public, mentions, links)
    PROVE  IInv'
<1>1. TypeOK /\ RepostsPlain
  BY DEF IInv
<1>2. PICK new \in PostId \ (Ids \cup found) :
        /\ a \in profiles
        /\ parent # None => parent \in Ids
        /\ original # None => original \in Ids
        /\ mentions \subseteq profiles /\ links \subseteq Ids
        /\ posts' = [p \in Ids \cup {new} |->
              IF p = new
              THEN [author |-> a, parent |-> parent, original |-> original,
                    public |-> public, mentions |-> mentions, links |-> links,
                    replyCount |-> 0, repostCount |-> 0, reactionCount |-> 0]
              ELSE UpdateRepostCount(UpdateReplyCount(posts, parent, 1), original, 1)[p]]
        /\ postCount' = UpdatePostCount(a, 1)
        /\ profiles' = profiles /\ reactions' = reactions /\ found' = found
  BY DEF InsertPost, MentionsExist, LinksExist
<1>3. PICK others : others = UpdateRepostCount(UpdateReplyCount(posts, parent, 1), original, 1)
  OBVIOUS
<1>4. PICK row : row = [author |-> a, parent |-> parent, original |-> original,
                        public |-> public, mentions |-> mentions, links |-> links,
                        replyCount |-> 0, repostCount |-> 0, reactionCount |-> 0]
  OBVIOUS
<1>5. posts' = [p \in Ids \cup {new} |-> IF p = new THEN row ELSE others[p]]
  BY <1>2, <1>3, <1>4
<1>6. /\ row.author = a /\ row.parent = parent /\ row.original = original
      /\ row.mentions = mentions /\ row.links = links
      /\ row.replyCount = 0 /\ row.repostCount = 0 /\ row.reactionCount = 0
  BY <1>4
<1>7. parent \in Ids \cup {None} /\ original \in Ids \cup {None}
      /\ Ids \subseteq PostId /\ profiles \subseteq Profile /\ None \notin Ids
      /\ links \subseteq Ids /\ mentions \subseteq profiles
  BY <1>1, <1>2, PostRows DEF TypeOK
<1>8. row \in Post
  <2>1. parent \in PostId \cup {None} /\ original \in PostId \cup {None} /\ links \in SUBSET PostId
    BY <1>7
  <2> QED
    BY <1>4, <2>1 DEF Post
<1>9. \A q \in Ids : posts[q] \in Post
  BY <1>1, PostRows
<1>10. posts \in [Ids -> Post]
  BY DEF IInv, IsTable
<1>11. /\ others \in [Ids -> Post]
       /\ \A q \in Ids : /\ Keeps(others[q], posts[q]) /\ Linked(others[q], posts[q])
                         /\ Counts(others[q], posts[q], Change(q, parent, 1), Change(q, original, 1), 0)
  <2>1. 1 \in Int /\ None \notin Ids
    BY <1>7
  <2> QED
    BY <1>3, <1>10, <2>1, BothTables
<1>12. Ids' = Ids \cup {new} /\ new \notin Ids
  BY <1>2, <1>5 DEF Ids
<1>13. posts' \in [Ids' -> Post] /\ posts'[new] = row /\ \A q \in Ids : posts'[q] = others[q]
  BY <1>5, <1>8, <1>11, <1>12
<1>14. \A q \in Ids : /\ Keeps(posts'[q], posts[q]) /\ Linked(posts'[q], posts[q])
                      /\ Counts(posts'[q], posts[q], Change(q, parent, 1), Change(q, original, 1), 0)
  BY <1>11, <1>13
<1>15. new # None
  BY PostsAssumption
<1>16. TypeOK'
  <2>1. ASSUME NEW p \in Ids'
        PROVE  /\ posts'[p].author \in profiles'
               /\ {posts'[p].parent, posts'[p].original} \subseteq Ids' \cup {None}
               /\ posts'[p].mentions \subseteq profiles' /\ posts'[p].links \subseteq Ids'
    <3>1. CASE p = new
      BY <1>2, <1>6, <1>7, <1>12, <1>13, <3>1
    <3>2. CASE p \in Ids
      <4>1. /\ posts[p].author \in profiles
            /\ {posts[p].parent, posts[p].original} \subseteq Ids \cup {None}
            /\ posts[p].mentions \subseteq profiles /\ posts[p].links \subseteq Ids
        BY <1>1, <3>2 DEF TypeOK
      <4> QED
        BY <1>2, <1>12, <1>14, <3>2, <4>1 DEF Keeps, Linked
    <3> QED
      BY <1>12, <3>1, <3>2
  <2>2. \A p \in Ids' : posts'[p] \in Post
    BY <1>13
  <2>3. reactions' \subseteq profiles' \X Ids'
    BY <1>1, <1>2, <1>12 DEF TypeOK
  <2>4. postCount' \in [Profile -> Int]
    BY <1>1, <1>2 DEF TypeOK, UpdatePostCount
  <2>5. profiles' \subseteq Profile /\ found' \subseteq PostId /\ Ids' \subseteq PostId
    BY <1>1, <1>2, <1>12 DEF TypeOK
  <2> QED
    BY <2>1, <2>2, <2>3, <2>4, <2>5 DEF TypeOK
<1>17. RepostsPlain'
  BY <1>1, <1>6, <1>12, <1>13, <1>14 DEF RepostsPlain, Keeps
<1>18. /\ \A b \in Profile : postCount[b] = Cardinality(ByAuthor(b)) /\ postCount[b] \in Int
       /\ \A p \in Ids : /\ posts[p].replyCount = Cardinality(Replies(p))
                         /\ posts[p].repostCount = Cardinality(Reposts(p))
                         /\ posts[p].reactionCount = Cardinality(Reactions(p))
  <2>1. \A b \in Profile : postCount[b] \in Int
    BY <1>1 DEF TypeOK
  <2> QED
    BY <2>1, CountersAre DEF IInv
<1>19. \A q : IsFiniteSet(Replies(q)) /\ IsFiniteSet(Reposts(q)) /\ IsFiniteSet(ByAuthor(q))
  BY <1>1, PartsFinite
<1>20. ASSUME NEW b \in Profile PROVE postCount'[b] = Cardinality(ByAuthor(b)')
  <2>1. postCount'[b] = IF b = a THEN postCount[b] + 1 ELSE postCount[b]
    BY <1>1, <1>2 DEF TypeOK, UpdatePostCount
  <2>2. new \notin ByAuthor(b) /\ ByAuthor(b)' = IF b = a THEN ByAuthor(b) \cup {new} ELSE ByAuthor(b)
    BY <1>6, <1>12, <1>13, <1>14 DEF ByAuthor, Keeps
  <2>3. Cardinality(ByAuthor(b) \cup {new}) = Cardinality(ByAuthor(b)) + 1
    BY <1>19, <2>2, OneMore
  <2> QED
    BY <1>18, <2>1, <2>2, <2>3
<1>21. ASSUME NEW q \in Ids
       PROVE  /\ posts'[q].replyCount = Cardinality(Replies(q)')
              /\ posts'[q].repostCount = Cardinality(Reposts(q)')
              /\ posts'[q].reactionCount = Cardinality(Reactions(q)')
  <2>1. /\ posts[q].replyCount \in Int /\ posts[q].repostCount \in Int /\ posts[q].reactionCount \in Int
        /\ q \in Ids'
    BY <1>1, <1>12, CountersInt
  <2>2. /\ posts'[q].replyCount = posts[q].replyCount + Change(q, parent, 1)
        /\ posts'[q].repostCount = posts[q].repostCount + Change(q, original, 1)
        /\ posts'[q].reactionCount = posts[q].reactionCount + 0
    BY <1>14 DEF Counts
  <2>3. posts'[q].replyCount = Cardinality(Replies(q)')
    <3>1. new \notin Replies(q) /\ Replies(q)' = IF q = parent THEN Replies(q) \cup {new} ELSE Replies(q)
      BY <1>6, <1>12, <1>13, <1>14 DEF Replies, Keeps
    <3>2. Cardinality(Replies(q) \cup {new}) = Cardinality(Replies(q)) + 1
      BY <1>19, <3>1, OneMore
    <3> QED
      BY <1>18, <2>1, <2>2, <3>1, <3>2 DEF Change
  <2>4. posts'[q].repostCount = Cardinality(Reposts(q)')
    <3>1. new \notin Reposts(q) /\ Reposts(q)' = IF q = original THEN Reposts(q) \cup {new} ELSE Reposts(q)
      BY <1>6, <1>12, <1>13, <1>14 DEF Reposts, Keeps
    <3>2. Cardinality(Reposts(q) \cup {new}) = Cardinality(Reposts(q)) + 1
      BY <1>19, <3>1, OneMore
    <3> QED
      BY <1>18, <2>1, <2>2, <3>1, <3>2 DEF Change
  <2>5. posts'[q].reactionCount = Cardinality(Reactions(q)')
    <3>1. Reactions(q)' = Reactions(q)
      BY <1>2 DEF Reactions
    <3> QED
      BY <1>18, <2>1, <2>2, <3>1
  <2> QED
    BY <2>3, <2>4, <2>5
<1>22. /\ posts'[new].replyCount = Cardinality(Replies(new)')
       /\ posts'[new].repostCount = Cardinality(Reposts(new)')
       /\ posts'[new].reactionCount = Cardinality(Reactions(new)')
  <2>1. \A p \in Ids : posts[p].parent # new /\ posts[p].original # new
    BY <1>1, <1>12, <1>15 DEF TypeOK
  <2>2. parent # new /\ original # new
    BY <1>7, <1>12, <1>15
  <2>3. Replies(new)' = {} /\ Reposts(new)' = {}
    BY <1>6, <1>12, <1>13, <1>14, <2>1, <2>2 DEF Replies, Reposts, Keeps
  <2>4. Reactions(new)' = {}
    BY <1>1, <1>2, <1>12 DEF Reactions, TypeOK
  <2> QED
    BY <1>6, <1>13, <2>3, <2>4, FS_EmptySet
<1>23. PostCountersExact'
  <2>1. \A p \in Ids' : /\ posts'[p].replyCount = Cardinality(Replies(p)')
                        /\ posts'[p].repostCount = Cardinality(Reposts(p)')
                        /\ posts'[p].reactionCount = Cardinality(Reactions(p)')
    BY <1>12, <1>21, <1>22
  <2> QED
    BY <1>20, <2>1, CountersAreNext
<1>24. IsTable'
  BY <1>13 DEF IsTable
<1> QED
  BY <1>16, <1>17, <1>23, <1>24 DEF IInv

\* A step that keeps the rows and changes counters, mentions or reactions.
LEMMA KeptRows ==
    ASSUME IInv, Ids' = Ids, posts' \in [Ids -> Post],
           \A q \in Ids : /\ Keeps(posts'[q], posts[q]) /\ posts'[q].links = posts[q].links
                          /\ posts'[q].mentions \subseteq profiles',
           profiles \subseteq profiles', profiles' \subseteq Profile, found' \subseteq PostId,
           reactions' \subseteq profiles' \X Ids, postCount' \in [Profile -> Int]
    PROVE  /\ TypeOK' /\ IsTable' /\ RepostsPlain'
           /\ \A q : Replies(q)' = Replies(q) /\ Reposts(q)' = Reposts(q) /\ ByAuthor(q)' = ByAuthor(q)
<1>1. TypeOK'
  <2>1. ASSUME NEW p \in Ids
        PROVE  /\ posts'[p].author \in profiles'
               /\ {posts'[p].parent, posts'[p].original} \subseteq Ids \cup {None}
               /\ posts'[p].links \subseteq Ids
    <3>1. /\ posts[p].author \in profiles /\ posts[p].links \subseteq Ids
          /\ {posts[p].parent, posts[p].original} \subseteq Ids \cup {None}
      BY DEF IInv, TypeOK
    <3> QED
      BY <3>1 DEF Keeps
  <2>2. Ids' \subseteq PostId
    BY DEF IInv, TypeOK
  <2>3. \A p \in Ids' : posts'[p] \in Post
    OBVIOUS
  <2> QED
    BY <2>1, <2>2, <2>3 DEF TypeOK
<1>2. RepostsPlain'
  BY DEF IInv, RepostsPlain, Keeps
<1>3. \A q : Replies(q)' = Replies(q) /\ Reposts(q)' = Reposts(q) /\ ByAuthor(q)' = ByAuthor(q)
  BY DEF Replies, Reposts, ByAuthor, Keeps
<1>4. IsTable'
  BY DEF IsTable
<1> QED
  BY <1>1, <1>2, <1>3, <1>4

\* The counters of such a step.
LEMMA KeptCounters ==
    ASSUME IInv, Ids' = Ids, postCount' = postCount,
           \A q : Replies(q)' = Replies(q) /\ Reposts(q)' = Reposts(q) /\ ByAuthor(q)' = ByAuthor(q),
           \A q \in Ids : /\ posts'[q].replyCount = posts[q].replyCount
                          /\ posts'[q].repostCount = posts[q].repostCount
                          /\ posts'[q].reactionCount = Cardinality(Reactions(q)')
    PROVE  PostCountersExact'
<1>1. /\ \A a \in Profile : postCount'[a] = Cardinality(ByAuthor(a)')
      /\ \A p \in Ids' : /\ posts'[p].replyCount = Cardinality(Replies(p)')
                         /\ posts'[p].repostCount = Cardinality(Reposts(p)')
                         /\ posts'[p].reactionCount = Cardinality(Reactions(p)')
  BY CountersAre DEF IInv
<1> QED
  BY <1>1, CountersAreNext

LEMMA UpdateNoteIInv ==
    ASSUME IInv, NEW p \in Ids, NEW mentions \in SUBSET Local, HandleUpdateNote(p, mentions)
    PROVE  IInv'
<1>1. /\ mentions \subseteq profiles /\ profiles' = profiles /\ reactions' = reactions
      /\ postCount' = postCount /\ found' = found
      /\ posts' = [posts EXCEPT ![p].mentions = mentions]
  BY DEF HandleUpdateNote, MentionsExist
<1>2. TypeOK /\ posts \in [Ids -> Post]
  BY DEF IInv, IsTable
<1>3. PICK x : x = [posts[p] EXCEPT !.mentions = mentions]
  OBVIOUS
<1>4. posts' = [posts EXCEPT ![p] = x]
  BY <1>1, <1>3
<1>5. PICK r : r = posts[p] /\ r \in Post
  BY <1>2
<1>6. /\ x \in Post /\ Keeps(x, r) /\ x.links = r.links /\ x.mentions = mentions
      /\ x.replyCount = r.replyCount /\ x.repostCount = r.repostCount
      /\ x.reactionCount = r.reactionCount
  <2>1. x = [r EXCEPT !.mentions = mentions]
    BY <1>3, <1>5
  <2> QED
    BY <1>5, <2>1 DEF Post, Keeps
<1>7. Ids' = Ids /\ posts' \in [Ids -> Post]
  BY <1>2, <1>4, <1>6 DEF Ids
<1>8. \A q \in Ids : posts'[q] = IF q = p THEN x ELSE posts[q]
  BY <1>2, <1>4
<1>9. \A q \in Ids : /\ Keeps(posts'[q], posts[q]) /\ posts'[q].links = posts[q].links
                     /\ posts'[q].mentions \subseteq profiles'
                     /\ posts'[q].replyCount = posts[q].replyCount
                     /\ posts'[q].repostCount = posts[q].repostCount
                     /\ posts'[q].reactionCount = posts[q].reactionCount
  <2> TAKE q \in Ids
  <2>1. CASE q = p
    BY <1>1, <1>5, <1>6, <1>8, <2>1
  <2>2. CASE q # p
    BY <1>1, <1>2, <1>8, <2>2, SameRow DEF TypeOK
  <2> QED
    BY <2>1, <2>2
<1>10. /\ TypeOK' /\ IsTable' /\ RepostsPlain'
       /\ \A q : Replies(q)' = Replies(q) /\ Reposts(q)' = Reposts(q) /\ ByAuthor(q)' = ByAuthor(q)
  <2>1. /\ profiles \subseteq profiles' /\ profiles' \subseteq Profile /\ found' \subseteq PostId
        /\ reactions' \subseteq profiles' \X Ids /\ postCount' \in [Profile -> Int]
    BY <1>1, <1>2 DEF TypeOK
  <2> QED
    BY <1>7, <1>9, <2>1, KeptRows
<1>11. \A q \in Ids : posts'[q].reactionCount = Cardinality(Reactions(q)')
  <2>1. \A q : Reactions(q)' = Reactions(q)
    BY <1>1 DEF Reactions
  <2> QED
    BY <1>9, <2>1, CountersAre DEF IInv
<1>12. PostCountersExact'
  BY <1>1, <1>7, <1>9, <1>10, <1>11, KeptCounters
<1> QED
  BY <1>10, <1>12 DEF IInv

\* create_reaction and delete_reaction: a reaction of p is added or removed.
LEMMA ReactionIInv ==
    ASSUME IInv, NEW p \in Ids, NEW c \in Int, posts' = UpdateReactionCount(p, c),
           Cardinality(Reactions(p)') = Cardinality(Reactions(p)) + c,
           \A q \in Ids \ {p} : Reactions(q)' = Reactions(q),
           reactions' \subseteq profiles \X Ids, UNCHANGED <<profiles, postCount, found>>
    PROVE  IInv'
<1>1. TypeOK /\ posts \in [Ids -> Post]
  BY DEF IInv, IsTable
<1>2. /\ posts' \in [Ids -> Post]
      /\ \A q \in Ids : /\ Keeps(posts'[q], posts[q]) /\ Linked(posts'[q], posts[q])
                        /\ Counts(posts'[q], posts[q], 0, 0, Change(q, p, c))
  BY <1>1, ReactionTable
<1>3. Ids' = Ids
  BY <1>2 DEF Ids
<1>4. /\ TypeOK' /\ IsTable' /\ RepostsPlain'
      /\ \A q : Replies(q)' = Replies(q) /\ Reposts(q)' = Reposts(q) /\ ByAuthor(q)' = ByAuthor(q)
  <2>1. /\ profiles \subseteq profiles' /\ profiles' \subseteq Profile /\ found' \subseteq PostId
        /\ reactions' \subseteq profiles' \X Ids /\ postCount' \in [Profile -> Int]
    BY <1>1 DEF TypeOK
  <2>2. \A q \in Ids : posts'[q].links = posts[q].links /\ posts'[q].mentions \subseteq profiles'
    BY <1>1, <1>2 DEF TypeOK, Linked
  <2> QED
    BY <1>2, <1>3, <2>1, <2>2, KeptRows
<1>5. ASSUME NEW q \in Ids
      PROVE  /\ posts'[q].replyCount = posts[q].replyCount
             /\ posts'[q].repostCount = posts[q].repostCount
             /\ posts'[q].reactionCount = Cardinality(Reactions(q)')
  <2>1. posts[q].replyCount \in Int /\ posts[q].repostCount \in Int /\ posts[q].reactionCount \in Int
    BY <1>1, CountersInt
  <2>2. Counts(posts'[q], posts[q], 0, 0, Change(q, p, c))
    BY <1>2
  <2>3. posts[q].reactionCount = Cardinality(Reactions(q))
    BY CountersAre DEF IInv
  <2>4. posts'[q].reactionCount = Cardinality(Reactions(q)')
    <3>1. CASE q = p
      BY <2>2, <2>3, <3>1 DEF Counts, Change
    <3>2. CASE q # p
      <4>1. Reactions(q)' = Reactions(q)
        BY <3>2
      <4> QED
        BY <2>1, <2>2, <2>3, <3>2, <4>1 DEF Counts, Change
    <3> QED
      BY <3>1, <3>2
  <2> QED
    BY <2>1, <2>2, <2>4 DEF Counts
<1>6. PostCountersExact'
  BY <1>3, <1>4, <1>5, KeptCounters
<1> QED
  BY <1>4, <1>6 DEF IInv

LEMMA CreateReactionIInv ==
    ASSUME IInv, NEW a \in Profile, NEW p, CreateReaction(a, p)
    PROVE  IInv'
<1>1. /\ a \in profiles /\ p \in Ids /\ <<a, p>> \notin reactions
      /\ reactions' = reactions \cup {<<a, p>>}
      /\ posts' = UpdateReactionCount(p, 1)
      /\ UNCHANGED <<profiles, postCount, found>>
  BY DEF CreateReaction
<1>2. Reactions(p)' = Reactions(p) \cup {<<a, p>>} /\ <<a, p>> \notin Reactions(p)
  BY <1>1 DEF Reactions
<1>3. Cardinality(Reactions(p)') = Cardinality(Reactions(p)) + 1
  <2>1. IsFiniteSet(Reactions(p))
    BY PartsFinite DEF IInv
  <2> QED
    BY <1>2, <2>1, OneMore
<1>4. \A q \in Ids \ {p} : Reactions(q)' = Reactions(q)
  BY <1>1 DEF Reactions
<1>5. reactions' \subseteq profiles \X Ids
  BY <1>1 DEF IInv, TypeOK
<1> QED
  BY <1>1, <1>3, <1>4, <1>5, ReactionIInv

LEMMA DeleteReactionIInv ==
    ASSUME IInv, NEW a \in Profile, NEW p, DeleteReaction(a, p)
    PROVE  IInv'
<1>1. /\ <<a, p>> \in reactions /\ reactions' = reactions \ {<<a, p>>}
      /\ posts' = UpdateReactionCount(p, -1)
      /\ UNCHANGED <<profiles, postCount, found>>
  BY DEF DeleteReaction
<1>2. p \in Ids
  BY <1>1 DEF IInv, TypeOK
<1>3. Reactions(p)' = Reactions(p) \ {<<a, p>>} /\ Reactions(p) \cap {<<a, p>>} = {<<a, p>>}
  BY <1>1 DEF Reactions
<1>4. Cardinality(Reactions(p)') = Cardinality(Reactions(p)) + (-1)
  <2>1. IsFiniteSet(Reactions(p))
    BY PartsFinite DEF IInv
  <2>2. Cardinality({<<a, p>>}) = 1 /\ Cardinality(Reactions(p)) \in Nat
    BY <2>1, FS_Singleton, FS_CardinalityType
  <2>3. Cardinality(Reactions(p) \ {<<a, p>>})
          = Cardinality(Reactions(p)) - Cardinality(Reactions(p) \cap {<<a, p>>})
    BY <2>1, Less
  <2> QED
    BY <1>3, <2>2, <2>3
<1>5. \A q \in Ids \ {p} : Reactions(q)' = Reactions(q)
  BY <1>1 DEF Reactions
<1>6. reactions' \subseteq profiles \X Ids
  BY <1>1 DEF IInv, TypeOK
<1> QED
  BY <1>1, <1>2, <1>4, <1>5, <1>6, ReactionIInv

\* create_user or the import of an actor: a profile without posts.
LEMMA CreateProfileIInv ==
    ASSUME IInv, NEW a \in Profile, CreateProfile(a)
    PROVE  IInv'
<1>1. /\ a \notin profiles /\ profiles' = profiles \cup {a}
      /\ postCount' = [postCount EXCEPT ![a] = 0]
      /\ posts' = posts /\ reactions' = reactions /\ found' = found
  BY DEF CreateProfile
<1>2. TypeOK /\ posts \in [Ids -> Post] /\ Ids' = Ids
  BY <1>1 DEF IInv, IsTable, Ids
<1>3. /\ TypeOK' /\ IsTable' /\ RepostsPlain'
      /\ \A q : Replies(q)' = Replies(q) /\ Reposts(q)' = Reposts(q) /\ ByAuthor(q)' = ByAuthor(q)
  <2>1. /\ profiles \subseteq profiles' /\ profiles' \subseteq Profile /\ found' \subseteq PostId
        /\ reactions' \subseteq profiles' \X Ids /\ postCount' \in [Profile -> Int]
    BY <1>1, <1>2 DEF TypeOK
  <2>2. \A q \in Ids : posts'[q].links = posts[q].links /\ posts'[q].mentions \subseteq profiles'
                       /\ Keeps(posts'[q], posts[q]) /\ posts' \in [Ids -> Post]
    BY <1>1, <1>2, SameRow DEF TypeOK
  <2> QED
    BY <1>1, <1>2, <2>1, <2>2, KeptRows
<1>4. \A b \in Profile : postCount[b] = Cardinality(ByAuthor(b))
      /\ \A q \in Ids : /\ posts[q].replyCount = Cardinality(Replies(q))
                        /\ posts[q].repostCount = Cardinality(Reposts(q))
                        /\ posts[q].reactionCount = Cardinality(Reactions(q))
  BY CountersAre DEF IInv
<1>5. ByAuthor(a) = {}
  BY <1>1, <1>2 DEF ByAuthor, TypeOK
<1>6. \A b \in Profile : postCount'[b] = Cardinality(ByAuthor(b)')
  BY <1>1, <1>2, <1>3, <1>4, <1>5, FS_EmptySet DEF TypeOK
<1>7. \A q \in Ids' : /\ posts'[q].replyCount = Cardinality(Replies(q)')
                      /\ posts'[q].repostCount = Cardinality(Reposts(q)')
                      /\ posts'[q].reactionCount = Cardinality(Reactions(q)')
  <2>1. \A q : Reactions(q)' = Reactions(q)
    BY <1>1 DEF Reactions
  <2> QED
    BY <1>1, <1>2, <1>3, <1>4, <2>1
<1>8. PostCountersExact'
  BY <1>6, <1>7, CountersAreNext
<1> QED
  BY <1>3, <1>8 DEF IInv

-----------------------------------------------------------------------------
(* The theorems *)

LEMMA InitIInv == Init => IInv
<1> SUFFICES ASSUME Init PROVE IInv
  OBVIOUS
<1>1. profiles = {} /\ reactions = {} /\ found = {} /\ postCount = [a \in Profile |-> 0] /\ Ids = {}
  BY DEF Init, Ids
<1>2. TypeOK
  BY <1>1 DEF TypeOK
<1>3. posts \in [Ids -> Post]
  BY <1>1 DEF Init
<1>4. RepostsPlain
  BY <1>1 DEF RepostsPlain
<1>5. \A a : {p \in Ids : posts[p].author = a} = {}
  BY <1>1
<1>6. PostCountersExact
  BY <1>1, <1>5, FS_EmptySet DEF PostCountersExact
<1> QED
  BY <1>2, <1>3, <1>4, <1>6 DEF IInv, IsTable

\* A step that leaves the tables alone.
LEMMA TablesKept ==
    ASSUME IInv, UNCHANGED <<profiles, posts, reactions, postCount>>, found' \subseteq PostId
    PROVE  IInv'
<1>1. Ids' = Ids
  BY DEF Ids
<1> QED
  BY <1>1 DEF IInv, TypeOK, IsTable, RepostsPlain, PostCountersExact

\* The transactions on the tables, by whoever runs them.
ProfileStep == \E a \in Profile : CreateProfile(a) \/ DeleteProfile(a)

InsertStep ==
    \E a \in Profile, parent \in Ids \cup {None}, original \in Ids \cup {None} :
        \E public \in BOOLEAN, mentions \in SUBSET Local, links \in SUBSET Ids :
            /\ parent = None \/ original = None
            /\ InsertPost(a, parent, original, public, mentions, links)

ReactionStep == \E a \in Profile, p \in Ids : CreateReaction(a, p) \/ DeleteReaction(a, p)

DeleteStep == \E p \in Ids : DeletePostRow(p) /\ (found' = found \/ found' = found \ {p})

UpdateStep == \E p \in Ids, mentions \in SUBSET Local : HandleUpdateNote(p, mentions)

\* Every step is one of these, or changes what is found only.
LEMMA KindsOfSteps ==
    ASSUME Next
    PROVE  \/ ProfileStep \/ InsertStep \/ ReactionStep \/ DeleteStep \/ UpdateStep
           \/ UNCHANGED <<profiles, posts, reactions, postCount>> /\ found' \subseteq Ids \cup found
<1>1. ASSUME NEW a \in Profile, CreateProfile(a) \/ HandleSelfDelete(a) \/ CliDeleteProfile(a)
      PROVE  ProfileStep
  BY <1>1 DEF HandleSelfDelete, CliDeleteProfile, ProfileStep
<1>2. ASSUME NEW a \in Profile, NEW parent \in Ids \cup {None}, NEW public \in BOOLEAN,
             \/ \E links \in SUBSET Ids : CreateStatus(a, parent, public, links)
             \/ \E mentions \in SUBSET Local : HandleNote(a, parent, public, mentions)
      PROVE  InsertStep
  BY <1>2 DEF CreateStatus, HandleNote, InsertStep
<1>3. ASSUME NEW a \in Profile, NEW p \in Ids, Reblog(a, p) \/ HandleAnnounce(a, p)
      PROVE  InsertStep
  BY <1>3 DEF Reblog, HandleAnnounce, InsertStep
<1>4. ASSUME NEW a \in Profile, NEW p \in Ids,
             Favourite(a, p) \/ Unfavourite(a, p) \/ HandleLike(a, p) \/ UndoLike(a, p)
      PROVE  ReactionStep
  BY <1>4 DEF Favourite, Unfavourite, HandleLike, UndoLike, ReactionStep
<1>5. ASSUME NEW a \in Profile, NEW p \in Ids, Unreblog(a, p)
      PROVE  DeleteStep
  BY <1>5 DEF Unreblog, DeletePost, DeleteStep
<1>6. ASSUME NEW p \in Ids, DeleteStatus(p) \/ HandleDelete(p) \/ UndoAnnounce(p) \/ DeleteFound(p)
      PROVE  DeleteStep
  BY <1>6 DEF DeleteStatus, HandleDelete, UndoAnnounce, DeleteFound, DeletePost, DeleteStep
<1>7. ASSUME FindExtraneous \/ FoundAborts
      PROVE  UNCHANGED <<profiles, posts, reactions, postCount>> /\ found' \subseteq Ids \cup found
  BY <1>7 DEF FindExtraneous, FoundAborts
<1>8. ASSUME NEW p \in Ids, NEW mentions \in SUBSET Local, HandleUpdateNote(p, mentions)
      PROVE  UpdateStep
  BY <1>8 DEF UpdateStep
<1> QED
  BY <1>1, <1>2, <1>3, <1>4, <1>5, <1>6, <1>7, <1>8 DEF Next

LEMMA NextIInv ==
    ASSUME IInv, [Next]_vars
    PROVE  IInv'
<1>1. TypeOK
  BY DEF IInv
<1>2. CASE UNCHANGED vars
  BY <1>1, <1>2, TablesKept DEF vars, TypeOK
<1>3. ASSUME NEW a \in Profile, CreateProfile(a) \/ DeleteProfile(a) PROVE IInv'
  BY <1>3, CreateProfileIInv, DeleteProfileIInv
<1>4. ASSUME NEW a \in Profile, NEW parent \in Ids \cup {None}, NEW original \in Ids \cup {None},
             NEW public \in BOOLEAN, NEW mentions \in SUBSET Local, NEW links \in SUBSET Ids,
             parent = None \/ original = None,
             InsertPost(a, parent, original, public, mentions, links)
      PROVE  IInv'
  BY <1>4, InsertPostIInv
<1>5. ASSUME NEW a \in Profile, NEW p \in Ids, CreateReaction(a, p) \/ DeleteReaction(a, p) PROVE IInv'
  BY <1>5, CreateReactionIInv, DeleteReactionIInv
<1>6. ASSUME NEW p \in Ids, DeletePostRow(p), found' = found \/ found' = found \ {p} PROVE IInv'
  <2>1. found' \subseteq PostId
    BY <1>1, <1>6 DEF TypeOK
  <2> QED
    BY <1>6, <2>1, DeletePostIInv
<1>7. ASSUME NEW p \in Ids, NEW mentions \in SUBSET Local, HandleUpdateNote(p, mentions) PROVE IInv'
  BY <1>7, UpdateNoteIInv
<1>8. CASE UNCHANGED <<profiles, posts, reactions, postCount>> /\ found' \subseteq Ids \cup found
  <2>1. found' \subseteq PostId
    BY <1>1, <1>8 DEF TypeOK
  <2> QED
    BY <1>8, <2>1, TablesKept
<1>9. CASE Next
  <2>1. CASE ProfileStep
    BY <1>3, <2>1 DEF ProfileStep
  <2>2. CASE InsertStep
    BY <1>4, <2>2 DEF InsertStep
  <2>3. CASE ReactionStep
    BY <1>5, <2>3 DEF ReactionStep
  <2>4. CASE DeleteStep
    BY <1>6, <2>4 DEF DeleteStep
  <2>5. CASE UpdateStep
    BY <1>7, <2>5 DEF UpdateStep
  <2> QED
    BY <1>8, <1>9, <2>1, <2>2, <2>3, <2>4, <2>5, KindsOfSteps
<1> QED
  BY <1>2, <1>9

LEMMA SpecIInv == Spec => []IInv
BY InitIInv, NextIInv, PTL DEF Spec

-----------------------------------------------------------------------------
(* The threads that the periodic task finds *)

\* Induction goes by the least counterexample.
LEMMA LeastNat ==
    ASSUME NEW S \in SUBSET Nat, S # {}
    PROVE  \E m \in S : \A n \in S : m <= n
<1> DEFINE R == OpToRel(<, Nat)
<1>1. IsWellFoundedOn(R, Nat)
  BY NatLessThanWellFounded
<1>2. \A x \in Nat, y \in Nat : <<x, y>> \in R <=> x < y
  BY DEF OpToRel
<1> HIDE DEF R
<1>3. PICK m \in S : \A n \in S : <<n, m>> \notin R
  BY <1>1, WFMin
<1>4. m \in Nat
  OBVIOUS
<1>5. ASSUME NEW n \in S PROVE m <= n
  <2>1. n \in Nat /\ ~(n < m)
    BY <1>2, <1>3, <1>4
  <2> QED
    BY <1>4, <2>1
<1> QED
  BY <1>5

Up(p) == IF IsRepost(p) THEN posts[p].original ELSE posts[p].parent

\* One level of Root, from the level below.
Climbed(below) == [p \in Ids |-> IF Up(p) = None THEN p ELSE below[Up(p)]]

Level(f, n) == IF n = 0 THEN [p \in Ids |-> p] ELSE Climbed(f[n - 1])

\* There is such a function for any number of levels ...
LEMMA LevelsExist ==
    ASSUME NEW N \in Nat
    PROVE  \E f : f = [n \in 0..N |-> Level(f, n)]
<1> DEFINE Levels(k) == \E f : f = [n \in 0..k |-> Level(f, n)]
           missing == {k \in Nat : ~Levels(k)}
<1> SUFFICES missing = {}
  OBVIOUS
<1>1. Levels(0)
  <2> DEFINE f == [n \in 0..0 |-> [p \in Ids |-> p]]
  <2>1. \A n \in 0..0 : n = 0
    OBVIOUS
  <2>2. \A g : \A n \in 0..0 : Level(g, n) = [p \in Ids |-> p]
    BY <2>1 DEF Level
  <2>3. f = [n \in 0..0 |-> Level(f, n)]
    BY <2>2
  <2> QED
    BY <2>3
<1>2. ASSUME NEW k \in Nat, Levels(k) PROVE Levels(k + 1)
  <2>1. PICK g : g = [n \in 0..k |-> Level(g, n)]
    BY <1>2
  <2>2. PICK top : top = Climbed(g[k])
    OBVIOUS
  <2>3. PICK f : f = [n \in 0..(k + 1) |-> IF n = k + 1 THEN top ELSE g[n]]
    OBVIOUS
  <2>4. ASSUME NEW n \in 0..(k + 1) PROVE f[n] = Level(f, n)
    <3>1. CASE n = k + 1
      <4>1. n # 0 /\ n - 1 = k /\ k \in 0..(k + 1) /\ k # k + 1
        BY <3>1
      <4>2. f[n] = top /\ f[n - 1] = g[k]
        BY <2>3, <3>1, <4>1
      <4> QED
        BY <2>2, <4>1, <4>2 DEF Level
    <3>2. CASE n # k + 1
      <4>1. n \in 0..k
        BY <3>2
      <4>2. f[n] = g[n] /\ g[n] = Level(g, n)
        BY <2>1, <2>3, <3>2, <4>1
      <4>3. n # 0 => n - 1 \in 0..(k + 1) /\ n - 1 # k + 1
        BY <4>1
      <4>4. n # 0 => f[n - 1] = g[n - 1]
        BY <2>3, <4>3
      <4> QED
        BY <4>2, <4>4 DEF Level
    <3> QED
      BY <3>1, <3>2
  <2>5. f = [n \in 0..(k + 1) |-> Level(f, n)]
    BY <2>3, <2>4
  <2> QED
    BY <2>5
<1> HIDE DEF Levels
<1> SUFFICES ASSUME missing # {} PROVE FALSE
  OBVIOUS
<1>3. PICK m \in missing : \A n \in missing : m <= n
  BY LeastNat
<1>4. m \in Nat /\ ~Levels(m) /\ m # 0
  BY <1>1, <1>3
<1>5. m - 1 \in Nat /\ (m - 1) + 1 = m /\ ~(m <= m - 1)
  BY <1>4
<1>6. Levels(m - 1)
  BY <1>3, <1>5
<1> QED
  BY <1>2, <1>4, <1>5, <1>6

\* ... so that Root is one.
LEMMA RootIs ==
    ASSUME Cardinality(PostId) \in Nat
    PROVE  \A n \in 0..Cardinality(PostId) : Root[n] = Level(Root, n)
<1> DEFINE N == Cardinality(PostId)
           Entry(f, n) ==
             [p \in Ids |->
               LET up == IF IsRepost(p) THEN posts[p].original ELSE posts[p].parent
               IN  IF n = 0 \/ up = None THEN p ELSE f[n - 1][up]]
<1>1. \A f : \A n \in 0..N : Level(f, n) = Entry(f, n)
  BY DEF Level, Climbed, Up
<1>2. \E f : f = [n \in 0..N |-> Entry(f, n)]
  <2>1. PICK f : f = [n \in 0..N |-> Level(f, n)]
    BY LevelsExist
  <2> QED
    BY <1>1, <2>1
<1>3. Root = [n \in 0..N |-> Entry(Root, n)]
  BY <1>2 DEF Root
<1> HIDE DEF Entry
<1>4. \A n \in 0..N : Root[n] = Entry(Root, n)
  BY <1>3
<1> QED
  BY <1>1, <1>4

\* Whoever's thread goes up to a post of a closed set is in it.
LEMMA ClimbsFromContext ==
    ASSUME TypeOK, NEW C \in SUBSET Ids, \A q \in C : Dependents(q) \subseteq C,
           Cardinality(PostId) \in Nat,
           NEW n \in 0..Cardinality(PostId), NEW q \in Ids, Root[n][q] \in C
    PROVE  q \in C
<1> DEFINE N == Cardinality(PostId)
           Strays(k) == k \in 0..N /\ \E x \in Ids \ C : Root[k][x] \in C
           strays == {k \in Nat : Strays(k)}
<1> SUFFICES ASSUME q \notin C PROVE FALSE
  OBVIOUS
<1>1. n \in strays
  OBVIOUS
<1> HIDE DEF strays
<1>2. PICK m \in strays : \A k \in strays : m <= k
  BY <1>1, LeastNat DEF strays
<1>3. m \in 0..N /\ m \in Nat
  BY <1>2 DEF strays
<1>4. PICK x \in Ids \ C : Root[m][x] \in C
  BY <1>2 DEF strays
<1>5. Root[m] = Level(Root, m)
  BY <1>3, RootIs
<1>6. m # 0 /\ Up(x) # None /\ Root[m - 1][Up(x)] \in C
  BY <1>4, <1>5 DEF Level, Climbed
<1>7. Up(x) \in Ids \ C
  BY <1>4, <1>6 DEF TypeOK, Up, Dependents
<1>8. m - 1 \in Nat /\ m - 1 \in 0..N /\ ~(m <= m - 1)
  BY <1>3, <1>6
<1>9. m - 1 \in strays
  BY <1>6, <1>7, <1>8 DEF strays
<1> QED
  BY <1>2, <1>8, <1>9

LEMMA ExtraneousUntouched ==
    ASSUME TypeOK, NEW p, IsExtraneous(p), NEW q \in Thread(p)
    PROVE  ~TouchedLocally(q)
<1> DEFINE N == Cardinality(PostId)
           C == Context({p})
<1>1. N \in Nat
  BY PostsAssumption, FS_CardinalityType
<1>2. p \in Ids /\ Up(p) = None
  BY DEF IsExtraneous, Up
<1>3. p \in C /\ C \in SUBSET Ids /\ \A x \in C : Dependents(x) \subseteq C
  BY <1>2, ContextFacts
<1>4. \A x \in C : posts[x].author \notin Local /\ posts[x].mentions = {}
  BY DEF IsExtraneous
<1>5. \A r \in reactions : r[2] \in C => r[1] \notin Local
  BY DEF IsExtraneous
<1>6. \A x \in Ids : posts[x].author \notin Local \/ posts[x].links \cap C = {}
  BY DEF IsExtraneous
<1> HIDE DEF N, C
<1>7. N \in 0..N
  BY <1>1
<1>8. Root[N] = Level(Root, N)
  BY <1>1, <1>7, RootIs DEF N
<1>9. Root[N][p] = p
  BY <1>2, <1>8 DEF Level, Climbed
<1>10. q \in Ids /\ Root[N][q] \in C
  BY <1>3, <1>9 DEF Thread, N
<1>11. q \in C
  BY <1>1, <1>3, <1>7, <1>10, ClimbsFromContext DEF N
<1> QED
  BY <1>4, <1>5, <1>6, <1>10, <1>11 DEF TouchedLocally

\* Only FindExtraneous lists posts.
LEMMA Listed ==
    ASSUME Next
    PROVE  FindExtraneous \/ found' \subseteq found
<1>1. \A a, parent, original, public, mentions, links :
        InsertPost(a, parent, original, public, mentions, links) => found' = found
  BY DEF InsertPost
<1>2. \A a, p : (CreateReaction(a, p) \/ DeleteReaction(a, p)) => found' = found
  BY DEF CreateReaction, DeleteReaction
<1>3. \A a : (CreateProfile(a) \/ DeleteProfile(a)) => found' = found
  BY DEF CreateProfile, DeleteProfile
<1>4. \A p : DeletePost(p) => found' = found
  BY DEF DeletePost
<1>5. \A p : DeleteFound(p) => found' \subseteq found
  BY DEF DeleteFound
<1>6. \A p, mentions : HandleUpdateNote(p, mentions) => found' = found
  BY DEF HandleUpdateNote
<1>7. FoundAborts => found' \subseteq found
  BY DEF FoundAborts
<1> QED
  BY <1>1, <1>2, <1>3, <1>4, <1>5, <1>6, <1>7
  DEF Next, CreateStatus, HandleNote, Reblog, HandleAnnounce, Favourite, HandleLike, Unfavourite,
      UndoLike, Unreblog, DeleteStatus, HandleDelete, UndoAnnounce, HandleSelfDelete, CliDeleteProfile

-----------------------------------------------------------------------------
(* The theorems *)

\* No post, mention, link or reaction refers to a row that is gone, whatever is
\* written, updated, reposted or deleted, by users, remote actors or the
\* periodic task: the context that delete_post and delete_profile compute is
\* all that refers to what they delete.
THEOREM PostsTypeCorrect == Spec => []TypeOK
<1>1. IInv => TypeOK
  BY DEF IInv
<1> QED
  BY <1>1, SpecIInv, PTL

\* post_count, reply_count, repost_count and reaction_count are the numbers of
\* rows they summarise, for any number of posts and profiles: a deletion takes
\* from each counter just the rows it removes.
THEOREM PostsCountersExact == Spec => []PostCountersExact
<1>1. IInv => PostCountersExact
  BY DEF IInv
<1> QED
  BY <1>1, SpecIInv, PTL
\* When delete_extraneous_posts makes its list, no user of the server wrote,
\* reposted, liked, is mentioned in or links to any post of a listed thread,
\* whoever climbs to it from however far below.
THEOREM PostsFoundAreExtraneous == Spec => FoundAreExtraneous
<1>1. IInv /\ [Next]_vars =>
        [\A p \in found' \ found : \A q \in Thread(p) : ~TouchedLocally(q)]_vars
  <2> SUFFICES ASSUME TypeOK, Next, NEW p \in found' \ found, NEW q \in Thread(p)
               PROVE  ~TouchedLocally(q)
    BY DEF IInv
  <2>1. IsExtraneous(p)
    BY Listed DEF FindExtraneous
  <2> QED
    BY <2>1, ExtraneousUntouched
<1> QED
  BY <1>1, SpecIInv, PTL DEF Spec, FoundAreExtraneous
=============================================================================
