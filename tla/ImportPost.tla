------------------------------- MODULE ImportPost -------------------------------
(***************************************************************************)
(* The import of remote posts: import_post fetches an object, its          *)
(* ancestors and whatever they link to, then stores them with handle_note, *)
(* parents first.  It is run by the queued handlers of Create and Announce *)
(* (one at a time, in the background executor, retried after an error) and *)
(* by the search of any user, at the same time.                            *)
(*                                                                         *)
(* The documents of the other servers do not change during a behaviour.    *)
(* An object stands for its id; what it says is looked up in world.  Left  *)
(* out: authors, mentions and attachments, which can only make handle_note *)
(* fail, and everything that deletes posts.                                *)
(***************************************************************************)
EXTENDS Naturals, FiniteSets, SequencesExt

CONSTANTS
    Url,         \* URLs of remote objects
    LocalId,     \* ids of posts of this server, existing or not
    World,       \* what the other servers may say
    Importer,    \* concurrent calls of import_post
    DepthMax,    \* RECURSION_DEPTH_MAX
    None

Id == Url \cup LocalId

\* What a server returns for a URL has an id of its own, which is the URL
\* unless it is redirected; ids are not redirected.
Worlds == [canon : [Url -> Id], parent : [Url -> Id \cup {None}], links : [Url -> Seq(Id)]]

ASSUME ImportAssumption ==
    /\ IsFiniteSet(Url)
    /\ Url \cap LocalId = {} /\ None \notin Id
    /\ DepthMax \in Nat
    /\ \A w \in World :
        /\ w \in Worlds
        /\ \A u \in Url : w.canon[u] \in Url => w.canon[w.canon[u]] = w.canon[u]

VARIABLES
    world,       \* the documents
    local,       \* posts of this server that exist
    posts,       \* object_id -> [parent, links] of the remote posts that are stored
    importer,    \* the local variables of each call
    outcome      \* how the latest call of each importer ended, and why

importVars == <<world, local, posts, importer, outcome>>

Stored == DOMAIN posts

NoCall == [pc |-> "idle"]

Call == [pc : {"fetching", "storing"}, start : Url, queue : Seq(Id), held : Id \cup {None},
         objects : Seq(Url), redirects : UNION {[S -> Id] : S \in SUBSET Url},
         fetches : 0..DepthMax, disturbed : BOOLEAN]

\* disturbed is history: another call has stored something during this one, or
\* an error has ended it that is not of its own making.
CallResult == [result : {"none", "ok", "error", "panic"}, start : Url \cup {None},
            disturbed : BOOLEAN]

NoResult == [result |-> "none", start |-> None, disturbed |-> FALSE]

ImportTypeOK ==
    /\ world \in Worlds
    /\ local \subseteq LocalId
    /\ Stored \subseteq Url
    /\ \A u \in Stored :
        /\ posts[u].parent \in Stored \cup local \cup {None}
        /\ posts[u].links \subseteq Stored \cup local
    /\ importer \in [Importer -> {NoCall} \cup Call]
    /\ outcome \in [Importer -> CallResult]

ImportInit ==
    /\ world \in World
    /\ local \in SUBSET LocalId
    /\ posts = [u \in {} |-> None]
    /\ importer = [i \in Importer |-> NoCall]
    /\ outcome = [i \in Importer |-> NoResult]

-----------------------------------------------------------------------------
(* The call *)

\* object_received is the object itself, when Create comes from its server.
Start(i, u, received) ==
    /\ importer[i] = NoCall
    /\ received => world.canon[u] = u
    /\ importer' = [importer EXCEPT ![i] =
         [pc |-> "fetching", start |-> u, queue |-> <<u>>,
          held |-> IF received THEN u ELSE None, objects |-> <<>>,
          redirects |-> [x \in {} |-> None], fetches |-> 0, disturbed |-> FALSE]]
    /\ outcome' = [outcome EXCEPT ![i] = NoResult]
    /\ UNCHANGED <<world, local, posts>>

End(i, result, disturbed) ==
    /\ importer' = [importer EXCEPT ![i] = NoCall]
    /\ outcome' = [outcome EXCEPT ![i] =
         [result |-> result, start |-> importer[i].start, disturbed |-> disturbed]]
    /\ UNCHANGED <<world, local, posts>>

Ends(i, result) == End(i, result, importer[i].disturbed)

\* A request fails, an object is not valid, the database fails, the handler is
\* cut off, or the server is restarted.
Fail(i) ==
    /\ importer[i] # NoCall
    /\ End(i, "error", TRUE)

-----------------------------------------------------------------------------
(* One iteration of the loop.  The id is taken from the end of the queue.   *)

Fetching(i) == importer[i].pc = "fetching" /\ importer[i].queue # <<>>

Top(i) == Last(importer[i].queue)

Rest(i) == Front(importer[i].queue)

Continue(i) ==
    /\ importer' = [importer EXCEPT ![i].queue = Rest(i)]
    /\ UNCHANGED <<world, local, posts, outcome>>

Known(i) == Top(i) \in ToSet(importer[i].objects)

\* "loop detected"
SkipKnown(i) ==
    /\ Fetching(i)
    /\ Known(i)
    /\ Continue(i)

\* get_local_post_by_id, and an error if there is no such post.
SkipLocal(i) ==
    /\ Fetching(i)
    /\ Top(i) \in LocalId
    /\ IF Top(i) \in local THEN Continue(i) ELSE Ends(i, "error")

\* get_post_by_remote_object_id; the requested post itself may be stored already.
SkipStored(i) ==
    /\ Fetching(i)
    /\ ~Known(i)
    /\ Top(i) \in Stored
    /\ IF importer[i].objects = <<>> THEN Ends(i, "ok") ELSE Continue(i)

Missing(i) == Fetching(i) /\ ~Known(i) /\ Top(i) \in Url \ Stored

\* "too many objects"
TooDeep(i) ==
    /\ Missing(i)
    /\ importer[i].held = None
    /\ importer[i].fetches = DepthMax
    /\ Ends(i, "error")

Object(i) == IF importer[i].held = None THEN world.canon[Top(i)] ELSE importer[i].held

Fetches(i) == importer[i].fetches + IF importer[i].held = None THEN 1 ELSE 0

\* The object has another id than was asked for: it is kept for the next
\* iteration, which is to find its id.
Redirect(i) ==
    /\ Missing(i)
    /\ Fetches(i) <= DepthMax
    /\ Object(i) # Top(i)
    /\ importer' = [importer EXCEPT
         ![i].redirects = [u \in DOMAIN @ \cup {Top(i)} |->
                              IF u = Top(i) THEN Object(i) ELSE @[u]],
         ![i].queue = Append(Rest(i), Object(i)),
         ![i].held = Object(i),
         ![i].fetches = Fetches(i)]
    /\ UNCHANGED <<world, local, posts, outcome>>

\* (Mutant of Upcoming) The parent is last, and linked objects are next.
UpcomingParentLast(rest, parent, links) ==
    (IF parent = None THEN <<>> ELSE <<parent>>) \o rest \o links

\* The parent is next, linked objects are last.
Upcoming(rest, parent, links) ==
    Reverse(links) \o rest \o (IF parent = None THEN <<>> ELSE <<parent>>)

Collect(i) ==
    /\ Missing(i)
    /\ Fetches(i) <= DepthMax
    /\ Object(i) = Top(i)
    /\ importer' = [importer EXCEPT
         ![i].queue = Upcoming(Rest(i), world.parent[Top(i)], world.links[Top(i)]),
         ![i].objects = Append(@, Top(i)),
         ![i].held = None,
         ![i].fetches = Fetches(i)]
    /\ UNCHANGED <<world, local, posts, outcome>>

-----------------------------------------------------------------------------
(* The queue is empty *)

\* objects[0] of an empty vector: the first object turned out to be local.
Panic(i) ==
    /\ importer[i].pc = "fetching" /\ importer[i].queue = <<>>
    /\ importer[i].objects = <<>>
    /\ Ends(i, "panic")

\* (Mutant of StoringOrder) The objects are not reversed.
StoringOrderAsFetched(objects) == objects

StoringOrder(objects) == Reverse(objects)

StartStoring(i) ==
    /\ importer[i].pc = "fetching" /\ importer[i].queue = <<>>
    /\ importer[i].objects # <<>>
    /\ importer' = [importer EXCEPT ![i].pc = "storing", ![i].objects = StoringOrder(@)]
    /\ UNCHANGED <<world, local, posts, outcome>>

Resolved(i, id) ==
    IF id \in DOMAIN importer[i].redirects THEN importer[i].redirects[id] ELSE id

\* What handle_note makes of an object.
Row(i, u) == [parent |-> Resolved(i, world.parent[u]),
              links |-> {Resolved(i, id) : id \in ToSet(world.links[u])}]

\* (Mutant of Refers) The parent is not looked up.
RefersByLinks(i, u) == Row(i, u).links \subseteq Stored \cup local

\* get_post_by_object_id, of the parent and of each link.
Refers(i, u) ==
    (Row(i, u).links \cup {Row(i, u).parent}) \subseteq Stored \cup local \cup {None}

\* handle_note and create_post for the next object.
StoreNext(i) ==
    LET u == Head(importer[i].objects)
    IN  /\ importer[i].pc = "storing" /\ importer[i].objects # <<>>
        /\ Refers(i, u) /\ u \notin Stored
        /\ posts' = [x \in Stored \cup {u} |-> IF x = u THEN Row(i, u) ELSE posts[x]]
        /\ importer' = [k \in Importer |->
             IF k = i THEN [importer[k] EXCEPT !.objects = Tail(@)]
             ELSE IF importer[k] = NoCall THEN NoCall
             ELSE [importer[k] EXCEPT !.disturbed = TRUE]]
        /\ UNCHANGED <<world, local, outcome>>

\* NotFound of a parent or a link, or AlreadyExists of the object.
StoreFails(i) ==
    LET u == Head(importer[i].objects)
    IN  /\ importer[i].pc = "storing" /\ importer[i].objects # <<>>
        /\ ~Refers(i, u) \/ u \in Stored
        /\ Ends(i, "error")

StoredAll(i) ==
    /\ importer[i].pc = "storing" /\ importer[i].objects = <<>>
    /\ Ends(i, "ok")

-----------------------------------------------------------------------------
ImportStep(i) ==
    \/ \E u \in Url, received \in BOOLEAN : Start(i, u, received)
    \/ SkipKnown(i)
    \/ SkipLocal(i)
    \/ SkipStored(i)
    \/ TooDeep(i)
    \/ Redirect(i)
    \/ Collect(i)
    \/ Panic(i)
    \/ StartStoring(i)
    \/ StoreNext(i)
    \/ StoreFails(i)
    \/ StoredAll(i)
    \/ Fail(i)

ImportNext == \E i \in Importer : ImportStep(i)

ImportSpec == ImportInit /\ [][ImportNext]_importVars

-----------------------------------------------------------------------------
(* Properties *)

\* The id of the object that a document of w names by id.
Canon(w, id) == IF id \in Url THEN w.canon[id] ELSE id

\* A stored reply is attached to the post its document names, whatever
\* redirections, links, retries and concurrent imports there are: the post
\* with that id if the name is a redirected URL.  Only where a document links to
\* the same redirected URL may another post take its place.
ParentsTrue ==
    \A u \in Stored :
        LET parent == world.parent[u]
        IN  \/ posts[u].parent = Canon(world, parent)
            \/ /\ parent # Canon(world, parent)
               /\ \E x \in Url : parent \in ToSet(world.links[x])

\* The object u and its ancestors, by id; a local post ends the thread.
Ancestors(w, u) ==
    LET above[n \in 0..Cardinality(Url)] ==
            IF n = 0 THEN Canon(w, u)
            ELSE IF above[n - 1] \in Url THEN Canon(w, w.parent[above[n - 1]])
            ELSE None
    IN  above

Thread(w, u) == {Ancestors(w, u)[n] : n \in 0..Cardinality(Url)}

\* Its replies do not go round in a circle.
Rooted(w, u) == Ancestors(w, u)[Cardinality(Url)] \notin Url

\* A thread without links, of existing posts, that ends and is within the limit.
Plain(w, l, u) ==
    /\ Canon(w, u) \in Url
    /\ Thread(w, u) \subseteq Url \cup l \cup {None}
    /\ Rooted(w, u)
    /\ \A x \in Thread(w, u) \cap Url : w.links[x] = <<>>
    /\ Cardinality(Thread(w, u) \ {None}) <= DepthMax

\* A call that nothing disturbs imports such a thread, however much of it is
\* stored already and under whichever URLs the replies name their parents; and
\* a call that succeeds leaves the requested post stored.
ThreadImported ==
    \A i \in Importer :
        LET o == outcome[i]
        IN  /\ o.result = "ok" => Canon(world, o.start) \in Stored
            /\ o.result \in {"error", "panic"} /\ ~o.disturbed => ~Plain(world, local, o.start)
=============================================================================
